---- MODULE Spec2Model ----
(***************************************************************************)
(* Asana seed-data generator: the temporal samplers of src/utils/dates.py  *)
(* and the generation pipeline of src/main.py with its generators.         *)
(*                                                                         *)
(* Instants are whole seconds counted from 00:00:00 of day 0, and day 0 is *)
(* a Monday, so weekday(t) is datetime.weekday() (Monday = 0).  A date is  *)
(* a day number.  Microseconds are left out: every instant of a run        *)
(* inherits the same microsecond from datetime.now(), replace() keeps it.  *)
(*                                                                         *)
(* Every sampler is an operator of its arguments and of the random values  *)
(* it consumes (a record of draws); the actions enumerate the draws.       *)
(*                                                                         *)
(* In the pipeline the random module is a stream fixed when the run        *)
(* starts: rng holds its values, draw number p returns nth(p), and every   *)
(* call reads its draws at fixed places of the block of its loop pass.     *)
(* The handlers are then functions of the state; the runs differ by the    *)
(* stream, by datetime.now() and by Config.                                *)
(*                                                                         *)
(* A row keeps the columns the orchestration and the timestamps depend on. *)
(* Timestamps are stored as text, as the code does with isoformat(), and   *)
(* read back with fromisoformat().  schema.sql is not part of the source   *)
(* tree: an insert appends its rows (database.py executemany).             *)
(***************************************************************************)
EXTENDS Integers, Sequences, FiniteSets, TLC

VARIABLES
    ca,          \* the activation of generate_created_at checked on its own
    dd,          \* the activation of generate_due_date checked on its own
    cp,          \* the activation of generate_completed_at checked on its own
    ue,          \* the email loop of UserGenerator.generate_users on its own
    on,          \* the name loop of generate_organizations on its own
    rng,         \* the values the run's random draws return, in hundredths
    pos,         \* the number of draws consumed, modulo Cycle
    clock,       \* datetime.now()
    config,      \* Config, as read from the environment
    date_range,  \* AsanaDataGenerator.date_range
    stage,       \* where generate_all stands
    db,          \* the tables of the SQLite database
    self,        \* the id lists of AsanaDataGenerator
    run,         \* the locals of generate_sections and generate_tasks
    uuid         \* the number of uuid4 values issued

samplers == <<ca, dd, cp, ue, on>>
pipeline == <<rng, pos, clock, config, date_range, stage, db, self, run, uuid>>
vars == <<ca, dd, cp, ue, on, rng, pos, clock, config, date_range, stage, db,
          self, run, uuid>>

\* ------------------------------------------------------------------------
\* Bounds of the model
\* ------------------------------------------------------------------------

\* Longest window (in days) handed to generate_created_at on its own.
MaxWindowDays == 8

\* First day of the modelled calendar (a Monday), so that the backward
\* weekday search of line 51 stays in the calendar.
BaseDay == 7

\* The pipeline is not running while a sampler is checked on its own.
PipelineIdle ==
    /\ rng = <<>> /\ pos = 0 /\ clock = 0 /\ config = <<>>
    /\ date_range = <<>> /\ stage = "idle" /\ db = <<>> /\ self = <<>>
    /\ run = <<>> /\ uuid = 0

\* ------------------------------------------------------------------------
\* datetime arithmetic
\* ------------------------------------------------------------------------

SecondsPerDay == 86400
SecondsPerHour == 3600
SecondsPerMinute == 60

\* Python's None for an optional instant or date.
Null == -1

\* No uniqueness loop is checked on its own.
LoopsIdle == ue = Null /\ on = Null

\* datetime.date(): the calendar day of an instant.
date(t) == t \div SecondsPerDay

\* datetime.weekday(): Monday = 0 ... Sunday = 6.
weekday(t) == date(t) % 7

\* t + timedelta(days = n)
plus_days(t, n) == t + n * SecondsPerDay

\* t + timedelta(hours = n)
plus_hours(t, n) == t + n * SecondsPerHour

\* (end_date - start_date).days: timedelta normalises with a floor.
days_range(start_date, end_date) == (end_date - start_date) \div SecondsPerDay

\* t.replace(hour, minute, second): the day is kept, the time of day is set.
replace(t, hour, minute, second) ==
    date(t) * SecondsPerDay + hour * SecondsPerHour
        + minute * SecondsPerMinute + second

\* datetime.combine(d, datetime.min.time()): midnight of a date.
combine(d) == d * SecondsPerDay

\* Times of day the inputs are drawn from: midnight, mid-day, last second.
TimesOfDay == {0, 12 * SecondsPerHour + 30 * SecondsPerMinute + 30,
               SecondsPerDay - 1}

\* ------------------------------------------------------------------------
\* generate_created_at
\* ------------------------------------------------------------------------

\* Lines 50-51: walk back to the previous weekday.
RECURSIVE rewind_to_weekday(_)
rewind_to_weekday(candidate_date) ==
    IF weekday(candidate_date) > 4
    THEN rewind_to_weekday(plus_days(candidate_date, -1))
    ELSE candidate_date

\* Lines 47-51: one pass of the body of the weekday loop; k2 is the fresh
\* draw of line 49.
weekday_step(candidate_date, start_date, end_date, k2) ==
    LET next == plus_days(candidate_date, 1)
    IN  IF next > end_date
        THEN rewind_to_weekday(plus_days(start_date, k2))
        ELSE next

\* Lines 46-51: the weekday loop.  The redraw of line 49 ends on a weekday,
\* so one call consumes at most one such draw.
RECURSIVE weekday_loop(_, _, _, _)
weekday_loop(candidate_date, start_date, end_date, k2) ==
    IF weekday(candidate_date) > 4
    THEN weekday_loop(weekday_step(candidate_date, start_date, end_date, k2),
                      start_date, end_date, k2)
    ELSE candidate_date

\* Lines 58-59: the weekend loop leaves only with a Saturday or Sunday; it
\* never leaves when no start_date + k days, k in 0..days_range, is one.
weekend_days(start_date, end_date) ==
    {k \in 0..days_range(start_date, end_date) :
        weekday(plus_days(start_date, k)) > 4}

\* Lines 66-74: the hours the call can draw.
hours(hour_distribution, business) ==
    IF hour_distribution = "business_hours" /\ business THEN 9..17 ELSE 0..23

\* Lines 38-63: the day the call settles on, for the draws d:
\*   d.weekday_branch  random.random() < 0.85 (line 40)
\*   d.k               the accepted random_days (lines 43, 55/59, 62)
\*   d.k2              the draw of line 49
candidate_date_of(start_date, end_date, prefer_weekdays, d) ==
    IF prefer_weekdays /\ d.weekday_branch
    THEN weekday_loop(plus_days(start_date, d.k), start_date, end_date, d.k2)
    ELSE plus_days(start_date, d.k)

\* Lines 19-79 for draws on which the call returns.
generate_created_at(start_date, end_date, prefer_weekdays, d) ==
    replace(candidate_date_of(start_date, end_date, prefer_weekdays, d),
            d.hour, d.minute, d.second)

\* random.randint(0, days_range) raises ValueError on an empty range.
created_at_raises(start_date, end_date) == days_range(start_date, end_date) < 0

\* The weekend branch (line 52) is taken and no draw can leave its loop.
created_at_can_hang(start_date, end_date, prefer_weekdays) ==
    /\ prefer_weekdays
    /\ ~created_at_raises(start_date, end_date)
    /\ weekend_days(start_date, end_date) = {}

\* The draws on which generate_created_at returns, with the day offsets
\* taken from K and the time of day from the hours H, minutes M, seconds S.
created_at_draws(start_date, end_date, prefer_weekdays, K, H, M, S) ==
    LET range == 0..days_range(start_date, end_date)
    IN  {d \in [weekday_branch : BOOLEAN, k : K \cap range, k2 : K \cap range,
                hour : H, minute : M, second : S] :
            /\ (~prefer_weekdays => d.weekday_branch /\ d.k2 = d.k)
            /\ (prefer_weekdays /\ ~d.weekday_branch =>
                    /\ d.k \in weekend_days(start_date, end_date)
                    /\ d.k2 = d.k)}

\* ---- one call of generate_created_at, loop pass by loop pass ----

MinuteDraws == {0, 59}
SecondDraws == {0, 59}
HourDraws(hour_distribution) ==
    {h \in 0..23 : h \in {0, 23}
        \/ (hour_distribution = "business_hours" /\ h \in {9, 17})}

\* The windows of the calls: start on any day of a week at a sampled time of
\* day, end up to MaxWindowDays days later at a sampled time of day (an end
\* earlier on the start day gives the empty range).
InitCreatedAt ==
    /\ \E sd \in BaseDay..(BaseDay + 6), st \in TimesOfDay,
          n \in 0..MaxWindowDays, et \in TimesOfDay,
          p \in BOOLEAN, hd \in {"business_hours", "uniform"} :
          ca = [pc |-> "line38",
                start_date |-> combine(sd) + st,
                end_date |-> combine(sd + n) + et,
                prefer_weekdays |-> p, hour_distribution |-> hd,
                candidate_date |-> Null, result |-> Null]
    /\ dd = Null
    /\ cp = Null
    /\ LoopsIdle
    /\ PipelineIdle

\* Lines 38-44, 52-56, 60-63: choose the branch and draw the first day.
PickDay ==
    /\ ca.pc = "line38"
    /\ IF created_at_raises(ca.start_date, ca.end_date)
       THEN ca' = [ca EXCEPT !.pc = "ValueError"]
       ELSE \E k \in 0..days_range(ca.start_date, ca.end_date),
               weekday_branch \in BOOLEAN :
               ca' = [ca EXCEPT
                        !.candidate_date = plus_days(ca.start_date, k),
                        !.pc = IF ~ca.prefer_weekdays THEN "line66"
                               ELSE IF weekday_branch THEN "line46"
                               ELSE "line58"]
    /\ UNCHANGED <<dd, cp, ue, on, pipeline>>

\* Lines 46-51: one test of the weekday loop, and its body.
WeekdayLoopPass ==
    /\ ca.pc = "line46"
    /\ IF weekday(ca.candidate_date) > 4
       THEN \E k2 \in 0..days_range(ca.start_date, ca.end_date) :
               ca' = [ca EXCEPT !.candidate_date =
                        weekday_step(ca.candidate_date, ca.start_date,
                                     ca.end_date, k2)]
       ELSE ca' = [ca EXCEPT !.pc = "line66"]
    /\ UNCHANGED <<dd, cp, ue, on, pipeline>>

\* Lines 58-59: one test of the weekend loop, and its redraw.
WeekendLoopPass ==
    /\ ca.pc = "line58"
    /\ IF weekday(ca.candidate_date) <= 4
       THEN \E k \in 0..days_range(ca.start_date, ca.end_date) :
               ca' = [ca EXCEPT !.candidate_date = plus_days(ca.start_date, k)]
       ELSE ca' = [ca EXCEPT !.pc = "line66"]
    /\ UNCHANGED <<dd, cp, ue, on, pipeline>>

\* Lines 66-79: draw the time of day and return.
PickTime ==
    /\ ca.pc = "line66"
    /\ \E business \in BOOLEAN :
       \E hour \in HourDraws(ca.hour_distribution)
                     \cap hours(ca.hour_distribution, business),
          minute \in MinuteDraws, second \in SecondDraws :
          ca' = [ca EXCEPT !.pc = "return",
                   !.result = replace(ca.candidate_date, hour, minute, second)]
    /\ UNCHANGED <<dd, cp, ue, on, pipeline>>

NextCreatedAt == PickDay \/ WeekdayLoopPass \/ WeekendLoopPass \/ PickTime

SpecCreatedAt == InitCreatedAt /\ [][NextCreatedAt]_vars

\* Line 59 draws uniformly from 0..days_range: a weekend day that the window
\* holds is drawn sooner or later.
WeekendDrawn == WeekendLoopPass /\ weekday(ca'.candidate_date) > 4

\* A call that is running takes its next step, and the redraw of line 59
\* does not avoid for ever a day it can draw.
FairSpecCreatedAt ==
    SpecCreatedAt /\ WF_vars(NextCreatedAt) /\ SF_vars(WeekendDrawn)

\* The loop-by-loop run and the operator agree on the day a call settles on.
CandidateAgrees ==
    ca.pc = "line66" =>
        \E weekday_branch \in BOOLEAN,
           k, k2 \in 0..days_range(ca.start_date, ca.end_date) :
            /\ (ca.prefer_weekdays /\ ~weekday_branch =>
                    k \in weekend_days(ca.start_date, ca.end_date))
            /\ ca.candidate_date =
                    candidate_date_of(ca.start_date, ca.end_date,
                        ca.prefer_weekdays,
                        [weekday_branch |-> weekday_branch, k |-> k, k2 |-> k2])

\* ------------------------------------------------------------------------
\* generate_due_date
\* ------------------------------------------------------------------------

\* date.weekday() of a day number.
date_weekday(due_date) == due_date % 7

\* Lines 120-121 and 139-140: move to the next weekday.
RECURSIVE next_weekday(_)
next_weekday(due_date) ==
    IF date_weekday(due_date) > 4 THEN next_weekday(due_date + 1) ELSE due_date

\* The offsets with the comparisons of lines 114 and 125 written `<=`.
due_date_offsets_inclusive(rand) ==
    IF rand <= 15 THEN 0..1
    ELSE IF rand <= 40 THEN 1..7
    ELSE IF rand < 80 THEN 8..30
    ELSE 31..90

\* Lines 114-132: the day offsets the branch selected by rand can draw; rand
\* is random.random() in hundredths (0..99), the thresholds are 0.10, 0.15,
\* 0.40 and 0.80.
due_date_offsets(rand) ==
    IF rand < 15 THEN 0..1
    ELSE IF rand < 40 THEN 1..7
    ELSE IF rand < 80 THEN 8..30
    ELSE 31..90

\* generate_due_date with a true backdating in the overdue branch of line
\* 116 (created_date - randint(0, 1)).
generate_due_date_backdated(created_at, d) ==
    LET created_date == date(created_at)
    IN  IF d.rand < 10 THEN Null
        ELSE LET due_date ==
                    IF d.rand < 15 THEN created_date - d.days
                    ELSE date(plus_days(created_at, d.days))
             IN  IF d.avoid_weekend /\ date_weekday(due_date) > 4
                 THEN next_weekday(due_date)
                 ELSE due_date

\* Lines 105-142, for the draws d:
\*   d.rand           random.random() of line 105, in hundredths
\*   d.days           randint of line 116, 126, 129 or 132
\*   d.avoid_weekend  random.random() < 0.85 (lines 118, 137)
generate_due_date(created_at, d) ==
    LET created_date == date(created_at)
    IN  IF d.rand < 10 THEN Null
        ELSE LET due_date ==
                    IF d.rand < 15 THEN created_date + d.days
                    ELSE date(plus_days(created_at, d.days))
             IN  IF d.avoid_weekend /\ date_weekday(due_date) > 4
                 THEN next_weekday(due_date)
                 ELSE due_date

\* The draws of one call, with rand taken from R and the offsets from D.
due_date_draws(R, D) ==
    {d \in [rand : R, days : D, avoid_weekend : BOOLEAN] :
        d.days \in due_date_offsets(d.rand)}

\* ---- one call of generate_due_date ----

InitDueDate ==
    /\ \E cd \in BaseDay..(BaseDay + 6), ct \in TimesOfDay :
          dd = [pc |-> "line105", created_at |-> combine(cd) + ct,
                rand |-> Null, days |-> Null, avoid_weekend |-> FALSE,
                result |-> Null]
    /\ ca = Null
    /\ cp = Null
    /\ LoopsIdle
    /\ PipelineIdle

\* Lines 105-142.
DueDateCall ==
    /\ dd.pc = "line105"
    /\ \E d \in due_date_draws(0..99, 0..90) :
          dd' = [dd EXCEPT !.pc = "return", !.rand = d.rand, !.days = d.days,
                   !.avoid_weekend = d.avoid_weekend,
                   !.result = generate_due_date(dd.created_at, d)]
    /\ UNCHANGED <<ca, cp, ue, on, pipeline>>

NextDueDate == DueDateCall

SpecDueDate == InitDueDate /\ [][NextDueDate]_vars

\* ------------------------------------------------------------------------
\* generate_completed_at
\* ------------------------------------------------------------------------

\* Longest cycle time (days) drawn at lines 169-170; the log-normal draw
\* itself is unbounded.
MaxCycleTime == 5

\* How far before and after the creation day the due dates of the calls lie.
MaxDueBack == 2
MaxDueAhead == 4

\* generate_completed_at without the comparison with the due instant of
\* lines 187-193.
generate_completed_at_unclamped(created_at, due_date, completion_rate, aware, pytz, d) ==
    IF d.gate > completion_rate
    THEN [status |-> "return", value |-> Null]
    ELSE
        LET candidate == plus_days(created_at, d.cycle_time)
        IN  IF candidate <= created_at
            THEN [status |-> "return",
                  value |-> plus_hours(created_at, d.repair_hours)]
            ELSE [status |-> "return", value |-> candidate]

\* generate_completed_at without the repair of lines 196-197.
generate_completed_at_unrepaired(created_at, due_date, completion_rate, aware, pytz, d) ==
    IF d.gate > completion_rate
    THEN [status |-> "return", value |-> Null]
    ELSE
        LET candidate == plus_days(created_at, d.cycle_time)
            due_datetime == combine(due_date)
        IN  IF due_date /= Null /\ candidate > due_datetime
            THEN [status |-> "return",
                  value |-> IF d.on_time
                            THEN plus_hours(due_datetime, -d.hours_early)
                            ELSE plus_days(due_datetime, d.days_late)]
            ELSE [status |-> "return", value |-> candidate]

\* Lines 164-199.  completion_rate and d.gate are in hundredths; aware says
\* that created_at carries a timezone, pytz that the import of line 11
\* succeeded.  The draws d:
\*   d.gate          random.random() of line 164
\*   d.cycle_time    max(1, int(exp(normal(1.5, 0.5)))) of line 170
\*   d.on_time       random.random() < 0.80 (line 189)
\*   d.hours_early   randint(1, 24) of line 190
\*   d.days_late     randint(1, 3) of line 193
\*   d.repair_hours  randint(1, 24) of line 197
\* Comparing an aware with a naive instant raises TypeError.
generate_completed_at(created_at, due_date, completion_rate, aware, pytz, d) ==
    IF d.gate > completion_rate
    THEN [status |-> "return", value |-> Null]
    ELSE
        LET candidate == plus_days(created_at, d.cycle_time)
            has_due == due_date /= Null
            due_datetime == combine(due_date)
            \* lines 178-185: awareness after the reconciliation
            due_aware == aware /\ pytz
            candidate_aware == aware /\ (~has_due \/ pytz)
            late == has_due /\ candidate > due_datetime
            completed_at ==
                IF late
                THEN IF d.on_time
                     THEN plus_hours(due_datetime, -d.hours_early)
                     ELSE plus_days(due_datetime, d.days_late)
                ELSE candidate
            completed_aware == IF late THEN due_aware ELSE candidate_aware
        IN  IF has_due /\ candidate_aware /= due_aware
            THEN [status |-> "TypeError", value |-> Null]
            ELSE IF completed_aware /= aware
            THEN [status |-> "TypeError", value |-> Null]
            ELSE IF completed_at <= created_at
            THEN [status |-> "return",
                  value |-> plus_hours(created_at, d.repair_hours)]
            ELSE [status |-> "return", value |-> completed_at]

\* The draws of one call: the gate from G, the cycle time from C, the hour
\* offsets from H.
completed_at_draws(G, C, H) ==
    [gate : G, cycle_time : C, on_time : BOOLEAN, hours_early : H,
     days_late : 1..3, repair_hours : H]

\* The completion rates the generators pass (tasks.py 200-207, subtasks.py
\* 141) and 1.0.
CompletionRates == {60, 65, 70, 75, 90, 100}

GateDraws(completion_rate) ==
    {0, 99} \cup ({completion_rate, completion_rate + 1} \cap 0..99)

HourOffsetDraws == {1, 12, 24}

\* ---- one call of generate_completed_at ----

InitCompletedAt ==
    /\ \E cd \in BaseDay..(BaseDay + 6), ct \in TimesOfDay,
          has_due \in BOOLEAN, off \in (0 - MaxDueBack)..MaxDueAhead,
          rate \in CompletionRates, aw \in BOOLEAN, tz \in BOOLEAN :
          cp = [pc |-> "line164", created_at |-> combine(cd) + ct,
                due_date |-> IF has_due THEN cd + off ELSE Null,
                completion_rate |-> rate, aware |-> aw, pytz |-> tz,
                result |-> Null]
    /\ ca = Null
    /\ dd = Null
    /\ LoopsIdle
    /\ PipelineIdle

\* Lines 164-199.
CompletedAtCall ==
    /\ cp.pc = "line164"
    /\ \E d \in completed_at_draws(GateDraws(cp.completion_rate),
                                   1..MaxCycleTime, HourOffsetDraws) :
          LET r == generate_completed_at(cp.created_at, cp.due_date,
                       cp.completion_rate, cp.aware, cp.pytz, d)
          IN  cp' = [cp EXCEPT !.pc = r.status, !.result = r.value]
    /\ UNCHANGED <<ca, dd, ue, on, pipeline>>

NextCompletedAt == CompletedAtCall

SpecCompletedAt == InitCompletedAt /\ [][NextCompletedAt]_vars

\* ---- the call generate_completed_at(2024-03-01T00:00, 2024-03-10, 1.0) ----

\* The longest cycle time (in days) of the call.
MaxScenarioCycle == 14

\* Day 0 read as Monday 2024-01-01: the day numbers of 2024-03-01 (a
\* Friday) and 2024-03-10.
March1 == 60
March10 == 69

InitMarch ==
    /\ \E tz \in BOOLEAN :
          cp = [pc |-> "line164", created_at |-> combine(March1),
                due_date |-> March10, completion_rate |-> 100,
                aware |-> FALSE, pytz |-> tz, result |-> Null,
                draws |-> <<>>]
    /\ ca = Null
    /\ dd = Null
    /\ LoopsIdle
    /\ PipelineIdle

\* Lines 164-199, with the values drawn kept.
MarchCall ==
    /\ cp.pc = "line164"
    /\ \E d \in completed_at_draws(GateDraws(cp.completion_rate),
                                   1..MaxScenarioCycle, HourOffsetDraws) :
          LET r == generate_completed_at(cp.created_at, cp.due_date,
                       cp.completion_rate, cp.aware, cp.pytz, d)
          IN  cp' = [cp EXCEPT !.pc = r.status, !.result = r.value,
                               !.draws = d]
    /\ UNCHANGED <<ca, dd, ue, on, pipeline>>

NextMarch == MarchCall

SpecMarch == InitMarch /\ [][NextMarch]_vars

\* ------------------------------------------------------------------------
\* The email loop of UserGenerator.generate_users (users.py 51-100)
\* ------------------------------------------------------------------------

\* The most users of a call checked on its own.
MaxUsers == 3

\* users.py 66.
max_attempts == 10

\* str.lower() on the letters of the names below.
lower_char(c) ==
    CASE c = "A" -> "a"
      [] c = "E" -> "e"
      [] c = "L" -> "l"
      [] OTHER -> c

\* str.lower() of a text given as the sequence of its characters.
lower(chars) == [i \in DOMAIN chars |-> lower_char(chars[i])]

\* The string of a sequence of characters.
RECURSIVE join(_)
join(chars) == IF chars = <<>> THEN "" ELSE chars[1] \o join(Tail(chars))

\* str.replace(old, "") for a character old.
remove(chars, old) == SelectSeq(chars, LAMBDA c : c /= old)

\* demographics.py 36-79, rand in hundredths.
generate_email(first_name, last_name, domain, rand) ==
    LET first == lower(first_name)
        last == lower(last_name)
        email ==
            (IF rand < 60 THEN first \o <<".">> \o last
             ELSE IF rand < 80 THEN first \o last
             ELSE IF rand < 90 THEN <<first[1], ".">> \o last
             ELSE IF rand < 95 THEN first \o <<".", last[1]>>
             ELSE first \o <<"_">> \o last) \o <<"@">> \o domain
    IN  join(remove(remove(email, "'"), " "))

\* users.py 77: the email with the random suffix.
suffixed_email(first_name, last_name, domain, suffix) ==
    join(lower(first_name) \o <<".">> \o lower(last_name)
            \o <<".", ToString(suffix), "@">> \o domain)

\* The names generate_user_name returns (Faker), first and last name as
\* sequences of characters.
UserNames ==
    {[first |-> <<"A", "l">>, last |-> <<"L", "e", "e">>],
     [first |-> <<"A", "l">>, last |-> <<"L", "'", "e", "e">>],
     [first |-> <<"A", "l", "l">>, last |-> <<"E", "e">>]}

\* main.py 136: the domain when the organization has no row.
company_com == <<"company", ".", "com">>

\* One value of random.random() for each pattern of generate_email.
PatternDraws == {0, 60, 80, 90, 95}

\* The ends of random.randint(1000, 9999).
Suffixes == {1000, 9999}

\* The emails the users table holds when the call starts (users.py 52-53).
ExistingEmails == {{}, {"al.lee@company.com"}}

\* ---- generate_users up to the email of every user ----

InitEmails ==
    /\ \E count \in 1..MaxUsers, existing_emails \in ExistingEmails :
          ue = [pc |-> "line60", count |-> count, i |-> 0,
                first_name |-> <<>>, last_name |-> <<>>, attempt |-> 0,
                email |-> "", existing_emails |-> existing_emails,
                generated_emails |-> existing_emails, emails |-> <<>>]
    /\ ca = Null /\ dd = Null /\ cp = Null /\ on = Null
    /\ PipelineIdle

\* Lines 60-67: the next user and its name.
UserLoopPass ==
    /\ ue.pc = "line60"
    /\ ue.i < ue.count
    /\ \E name \in UserNames :
          ue' = [ue EXCEPT !.pc = "line68", !.first_name = name.first,
                           !.last_name = name.last, !.attempt = 0,
                           !.email = ""]
    /\ UNCHANGED <<ca, dd, cp, on, pipeline>>

\* Lines 68-73: one attempt.
EmailAttempt ==
    /\ ue.pc = "line68"
    /\ \E rand \in PatternDraws :
          LET candidate_email == generate_email(ue.first_name, ue.last_name,
                                                company_com, rand)
          IN  IF candidate_email \notin ue.generated_emails
              THEN ue' = [ue EXCEPT !.pc = "line76",
                            !.email = candidate_email,
                            !.generated_emails = @ \cup {candidate_email}]
              ELSE ue' = [ue EXCEPT !.attempt = @ + 1,
                            !.pc = IF ue.attempt + 1 < max_attempts
                                   THEN "line68" ELSE "line76"]
    /\ UNCHANGED <<ca, dd, cp, on, pipeline>>

\* Lines 76-100: the suffixed email when no attempt succeeded, then the row.
UserRow ==
    /\ ue.pc = "line76"
    /\ \E suffix \in IF ue.email = "" THEN Suffixes ELSE {0} :
          LET email == IF ue.email = ""
                       THEN suffixed_email(ue.first_name, ue.last_name,
                                           company_com, suffix)
                       ELSE ue.email
          IN  ue' = [ue EXCEPT !.pc = IF ue.i + 1 < ue.count
                                      THEN "line60" ELSE "line107",
                               !.i = @ + 1, !.email = email,
                               !.generated_emails = @ \cup {email},
                               !.emails = Append(@, email)]
    /\ UNCHANGED <<ca, dd, cp, on, pipeline>>

NextEmails == UserLoopPass \/ EmailAttempt \/ UserRow

SpecEmails == InitEmails /\ [][NextEmails]_vars

\* ------------------------------------------------------------------------
\* The name loop of generate_organizations (main.py 76-108)
\* ------------------------------------------------------------------------

\* The largest NUM_ORGANIZATIONS of a name loop checked on its own.
MaxNamedOrganizations == 4

\* main.py 82.
max_name_attempts == 20

\* companies.py 14-50, the first names of the list.
B2B_SAAS_COMPANIES == {"Acme Corporation", "TechFlow Solutions"}

\* The fallback name with the number of the organization left out.
fallback_name_unnumbered(i) == "Organization"

\* main.py 90-91: the name of organization i (from 0) when every attempt
\* collided.
fallback_name(i) == "Organization " \o ToString(i + 1)

InitOrganizationNames ==
    /\ \E count \in 0..MaxNamedOrganizations :
          on = [pc |-> "line79", NUM_ORGANIZATIONS |-> count, i |-> 0,
                attempt |-> 0, name |-> "", generated_names |-> {},
                names |-> <<>>]
    /\ ca = Null /\ dd = Null /\ cp = Null /\ ue = Null
    /\ PipelineIdle

\* Lines 79-83: the next organization.
OrganizationLoopPass ==
    /\ on.pc = "line79"
    /\ on' = IF on.i < on.NUM_ORGANIZATIONS
             THEN [on EXCEPT !.pc = "line84", !.attempt = 0, !.name = ""]
             ELSE [on EXCEPT !.pc = "line110"]
    /\ UNCHANGED <<ca, dd, cp, ue, pipeline>>

\* Lines 84-89: one attempt with the name get_company_name returns.
NameAttempt ==
    /\ on.pc = "line84"
    /\ \E candidate_name \in B2B_SAAS_COMPANIES :
          IF candidate_name \notin on.generated_names
          THEN on' = [on EXCEPT !.pc = "line90", !.name = candidate_name,
                        !.generated_names = @ \cup {candidate_name}]
          ELSE on' = [on EXCEPT !.attempt = @ + 1,
                        !.pc = IF on.attempt + 1 < max_name_attempts
                               THEN "line84" ELSE "line90"]
    /\ UNCHANGED <<ca, dd, cp, ue, pipeline>>

\* Lines 90-108: the fallback name when no attempt succeeded, then the row.
OrganizationRow ==
    /\ on.pc = "line90"
    /\ LET name == IF on.name = "" THEN fallback_name(on.i) ELSE on.name
       IN  on' = [on EXCEPT !.pc = "line79", !.i = @ + 1, !.name = name,
                            !.names = Append(@, name)]
    /\ UNCHANGED <<ca, dd, cp, ue, pipeline>>

NextOrganizationNames ==
    OrganizationLoopPass \/ NameAttempt \/ OrganizationRow

SpecOrganizationNames ==
    InitOrganizationNames /\ [][NextOrganizationNames]_vars

\* ------------------------------------------------------------------------
\* The run's random draws
\* ------------------------------------------------------------------------

\* The values of a run's draws repeat with this period.
Period == 5

\* The values (random.random() in hundredths) the draws of a run return.
DrawValues == {0, 12, 25, 50, 99}

\* The draws of a run repeat after this many.
Cycle == Period * Period

\* The value returned by draw number p of the run: each round of Period
\* draws returns the values of rng, starting one value further.
nth(p) == rng[((p + p \div Period) % Period) + 1]

\* random.randint(a, b) for the uniform value x.
randint(a, b, x) == a + (x * (b - a + 1)) \div 100

\* random.choice(seq) for the uniform value x.
choice(seq, x) == seq[1 + (x * Len(seq)) \div 100]

\* A uniform element of the finite set of integers S for the value x.
pick(S, x) ==
    CHOOSE e \in S :
        Cardinality({y \in S : y < e}) = (x * Cardinality(S)) \div 100

\* The draws of a generate_created_at call that starts at draw p (the seven
\* random calls of lines 40-77; the accepted day of the weekend loop is
\* uniform over the weekend days of the window).
drawn_created_at(p, start_date, end_date) ==
    LET weekday_branch == nth(p) < 85
        k == IF weekday_branch
             THEN randint(0, days_range(start_date, end_date), nth(p + 1))
             ELSE pick(weekend_days(start_date, end_date), nth(p + 1))
    IN  [weekday_branch |-> weekday_branch,
         k |-> k,
         k2 |-> randint(0, days_range(start_date, end_date), nth(p + 2)),
         hour |-> IF nth(p + 3) < 70 THEN randint(9, 17, nth(p + 4))
                  ELSE randint(0, 23, nth(p + 4)),
         minute |-> randint(0, 59, nth(p + 5)),
         second |-> randint(0, 59, nth(p + 6))]

\* generate_created_at(start_date, end_date, prefer_weekdays=True) at draw p:
\* it returns, raises ValueError (line 43, 55) or stays in the loop of lines
\* 58-59.
call_created_at(p, start_date, end_date) ==
    [start_date |-> start_date, end_date |-> end_date,
     status |-> IF created_at_raises(start_date, end_date) THEN "ValueError"
                ELSE IF nth(p) >= 85
                        /\ created_at_can_hang(start_date, end_date, TRUE)
                THEN "loop"
                ELSE "return",
     value |-> IF created_at_raises(start_date, end_date)
                  \/ (nth(p) >= 85
                        /\ created_at_can_hang(start_date, end_date, TRUE))
               THEN Null
               ELSE generate_created_at(start_date, end_date, TRUE,
                        drawn_created_at(p, start_date, end_date))]

\* The draws of a generate_due_date call that starts at draw p.
drawn_due_date(p) ==
    [rand |-> nth(p),
     days |-> pick(due_date_offsets(nth(p)), nth(p + 1)),
     avoid_weekend |-> nth(p + 2) < 85]

\* The draws of a generate_completed_at call that starts at draw p.
drawn_completed_at(p) ==
    [gate |-> nth(p),
     cycle_time |-> randint(1, MaxCycleTime, nth(p + 1)),
     on_time |-> nth(p + 2) < 80,
     hours_early |-> randint(1, 24, nth(p + 3)),
     days_late |-> randint(1, 3, nth(p + 4)),
     repair_hours |-> randint(1, 24, nth(p + 5))]

\* The first call, in program order, that did not return; the last call
\* when all returned.
RECURSIVE first_bad(_)
first_bad(calls) ==
    IF Len(calls) = 1 \/ calls[1].status /= "return"
    THEN calls[1]
    ELSE first_bad(Tail(calls))

\* The number of calls, in program order, that returned before the first
\* that did not.
RECURSIVE returned_before(_)
returned_before(calls) ==
    IF calls = <<>> \/ calls[1].status /= "return"
    THEN 0
    ELSE 1 + returned_before(Tail(calls))

\* The concatenation of a sequence of sequences.
RECURSIVE flatten(_)
flatten(seqs) ==
    IF seqs = <<>> THEN <<>> ELSE seqs[1] \o flatten(Tail(seqs))

\* ------------------------------------------------------------------------
\* Stored text
\* ------------------------------------------------------------------------

\* SQL NULL, and the empty string main.py passes for it.
NULL == <<>>

\* datetime.isoformat(): the date and the time of day.
isoformat(t) == <<date(t), t % SecondsPerDay>>

\* date.isoformat().
date_isoformat(d) == <<d>>

\* datetime.fromisoformat(): a text without a time is midnight of its date.
fromisoformat(text) ==
    IF Len(text) = 1 THEN combine(text[1]) ELSE combine(text[1]) + text[2]

\* datetime.fromisoformat() accepts the text; it raises ValueError on any
\* other (a time of day of 24:00:00, say).
parses(text) ==
    /\ Len(text) \in {1, 2}
    /\ text[1] >= 0
    /\ Len(text) = 2 => text[2] \in 0..(SecondsPerDay - 1)

\* ------------------------------------------------------------------------
\* The pipeline: AsanaDataGenerator
\* ------------------------------------------------------------------------

\* Config scaled down: the counts of the run.
MaxOrganizations == 2
NUM_USERS_MIN == 1
NUM_USERS_MAX == 2
NUM_TEAMS_MIN == 1
NUM_TEAMS_MAX == 1
NUM_PROJECTS_MIN == 1
NUM_PROJECTS_MAX == 2
TASKS_PER_PROJECT_MIN == 1
TASKS_PER_PROJECT_MAX == 2

\* DATE_RANGE_MONTHS * 30, scaled down.
DateRangeDays == 7

\* get_date_range for datetime.now() = now.
get_date_range(now) ==
    [start_date |-> plus_days(now, 0 - DateRangeDays), end_date |-> now]

\* The instants at which the runs start: a Wednesday at 12:30:30 and a
\* Saturday at 00:00:00.
Nows ==
    {combine(BaseDay + DateRangeDays + 2)
        + 12 * SecondsPerHour + 30 * SecondsPerMinute + 30,
     combine(BaseDay + DateRangeDays + 5)}

EmptyDatabase ==
    [organizations |-> <<>>, users |-> <<>>, teams |-> <<>>,
     team_memberships |-> <<>>, projects |-> <<>>, sections |-> <<>>,
     tasks |-> <<>>, comments |-> <<>>, tags |-> <<>>, task_tags |-> <<>>,
     custom_field_definitions |-> <<>>, custom_field_values |-> <<>>]

Init ==
    /\ ca = Null /\ dd = Null /\ cp = Null
    /\ LoopsIdle
    /\ rng \in [1..Period -> DrawValues]
    /\ pos = 0
    /\ \E now \in Nows : clock = now /\ date_range = get_date_range(now)
    /\ config \in [NUM_ORGANIZATIONS : 0..MaxOrganizations]
    /\ stage = "organizations"
    /\ db = EmptyDatabase
    /\ self = [organization_id |-> Null, user_ids |-> <<>>, team_ids |-> <<>>,
               project_info |-> <<>>, tag_ids |-> <<>>]
    /\ run = [project_sections |-> <<>>, all_task_ids |-> <<>>, project |-> 1,
              task_ids |-> <<>>, field_ids |-> <<>>, team_user_ids |-> <<>>,
              task |-> 1, loop |-> <<>>]
    /\ uuid = 0

\* database.py 68-76: execute and executemany hand every sqlite3.Error on to
\* their caller.  The outcome of the INSERT that follows the calls made (the
\* first of them that did not return, else the last): when raises, the
\* handler ends with sqlite3.Error instead of returning.
executemany(made, raises) ==
    IF made.status = "return" /\ raises
    THEN [made EXCEPT !.status = "sqlite3.Error"]
    ELSE made

\* Where generate_all stands after a handler whose first call that did not
\* return is bad: an exception reaches generate_all (lines 381-385), a loop
\* that cannot end keeps the run inside the handler.
after(bad, next_stage) ==
    IF bad.status = "return" THEN next_stage
    ELSE IF bad.status = "loop" THEN "looping"
    ELSE "failed"

\* The window of the loop the run stays in, if any.
loop_of(bad) ==
    IF bad.status = "loop"
    THEN [start_date |-> bad.start_date, end_date |-> bad.end_date,
          candidate_date |-> bad.start_date]
    ELSE <<>>

\* A call that returned, for a handler that makes no call.
returned == [status |-> "return", value |-> Null, start_date |-> 0,
             end_date |-> 0]

\* main.py 58-119.
GenerateOrganizations ==
    /\ stage = "organizations"
    /\ IF Len(db.organizations) > 0
       THEN /\ self' = [self EXCEPT !.organization_id =
                            db.organizations[1].organization_id]
            /\ stage' = "users"
            /\ UNCHANGED <<db, pos, uuid, run>>
       ELSE LET n == config.NUM_ORGANIZATIONS
                calls == [i \in 1..n |->
                            call_created_at(pos + 7 * (i - 1),
                                date_range.start_date, date_range.end_date)]
                bad == first_bad(calls \o <<returned>>)
                org_data == [i \in 1..n |->
                                [organization_id |-> uuid + i,
                                 created_at |-> isoformat(calls[i].value)]]
            IN  /\ stage' = after(bad, "users")
                /\ run' = [run EXCEPT !.loop = loop_of(bad)]
                /\ pos' = (pos + 7 * n) % Cycle
                /\ uuid' = uuid + n
                /\ self' = [self EXCEPT !.organization_id =
                                IF returned_before(calls) > 0
                                THEN uuid + returned_before(calls) ELSE Null]
                /\ db' = IF bad.status = "return"
                         THEN [db EXCEPT !.organizations = @ \o org_data]
                         ELSE db
    /\ clock' = clock + 1
    /\ UNCHANGED <<samplers, rng, config, date_range>>

\* main.py 121-143 and users.py 39-112: draw the count, then one created_at
\* per user; the rows are inserted after the loop.
GenerateUsers ==
    /\ stage = "users"
    /\ LET count == randint(NUM_USERS_MIN, NUM_USERS_MAX, nth(pos))
           calls == [i \in 1..count |->
                        call_created_at(pos + 1 + 7 * (i - 1),
                            date_range.start_date, date_range.end_date)]
           bad == first_bad(calls \o <<returned>>)
           users_data == [i \in 1..count |->
                            [user_id |-> uuid + i,
                             organization_id |-> self.organization_id,
                             created_at |-> isoformat(calls[i].value)]]
       IN  /\ stage' = after(bad, "teams")
           /\ run' = [run EXCEPT !.loop = loop_of(bad)]
           /\ pos' = (pos + 1 + 7 * count) % Cycle
           /\ uuid' = uuid + count
           /\ IF bad.status = "return"
              THEN /\ db' = [db EXCEPT !.users = @ \o users_data]
                   /\ self' = [self EXCEPT !.user_ids =
                                    [i \in 1..count |-> uuid + i]]
              ELSE UNCHANGED <<db, self>>
    /\ clock' = clock + 1
    /\ UNCHANGED <<samplers, rng, config, date_range>>

\* sample_team_size = min_size..max_size of distributions.py 28-44.
team_size_min == 3
team_size_max == 25

\* The draws one team takes: its created_at, its size, one joined_at per
\* member.
team_block == 8 + 7 * NUM_USERS_MAX

\* main.py 145-160 and teams.py 57-144: the teams and the memberships are
\* inserted after the loop; random.sample is taken as a prefix of user_ids.
GenerateTeams ==
    /\ stage = "teams"
    /\ LET count == randint(NUM_TEAMS_MIN, NUM_TEAMS_MAX, nth(pos))
           base(i) == pos + 1 + team_block * (i - 1)
           created(i) == call_created_at(base(i), date_range.start_date,
                                         date_range.end_date)
           team_size(i) == randint(team_size_min, team_size_max,
                                   nth(base(i) + 7))
           members(i) ==
               SubSeq(self.user_ids, 1,
                      IF team_size(i) < Len(self.user_ids)
                      THEN team_size(i) ELSE Len(self.user_ids))
           joined(i, j) == call_created_at(base(i) + 8 + 7 * (j - 1),
                                           created(i).value,
                                           date_range.end_date)
           calls == flatten([i \in 1..count |->
                        <<created(i)>> \o
                        [j \in 1..Len(members(i)) |-> joined(i, j)]])
           bad == first_bad(calls \o <<returned>>)
           team_id(i) == uuid + i
           teams_data == [i \in 1..count |->
                            [team_id |-> team_id(i),
                             organization_id |-> self.organization_id,
                             created_at |-> isoformat(created(i).value)]]
           team_memberships ==
               flatten([i \in 1..count |->
                   [j \in 1..Len(members(i)) |->
                       [membership_id |->
                            uuid + count + NUM_USERS_MAX * (i - 1) + j,
                        team_id |-> team_id(i),
                        user_id |-> members(i)[j],
                        joined_at |-> isoformat(joined(i, j).value)]]])
       IN  /\ stage' = after(bad, "projects")
           /\ run' = [run EXCEPT !.loop = loop_of(bad)]
           /\ pos' = (pos + 1 + team_block * count) % Cycle
           /\ uuid' = uuid + count + NUM_USERS_MAX * count
           /\ IF bad.status = "return"
              THEN /\ db' = [db EXCEPT !.teams = @ \o teams_data,
                                !.team_memberships = @ \o team_memberships]
                   /\ self' = [self EXCEPT !.team_ids =
                                    [i \in 1..count |-> team_id(i)]]
              ELSE UNCHANGED <<db, self>>
    /\ clock' = clock + 1
    /\ UNCHANGED <<samplers, rng, config, date_range>>

\* sample_project_type: Config.PROJECT_TYPES (config.py 65-72) by cumulated
\* weight, for the uniform value x.
sample_project_type(x) ==
    IF x < 30 THEN "engineering_sprint"
    ELSE IF x < 45 THEN "bug_tracking"
    ELSE IF x < 65 THEN "marketing_campaign"
    ELSE IF x < 80 THEN "product_roadmap"
    ELSE IF x < 90 THEN "operations"
    ELSE "design"

\* The draws one project takes: type, team gate, team, created_at,
\* modified_at.
project_block == 17

\* generate_all with the call of generate_sections left out.
after_projects_unsectioned(count) == IF count = 0 THEN "tags" ELSE "tasks"

\* Where the run goes after the projects: the loops over no project are
\* empty.
after_projects(count) == IF count = 0 THEN "tags" ELSE "sections"

\* main.py 162-175 and projects.py 64-130: the rows are inserted after the
\* loop.
GenerateProjects ==
    /\ stage = "projects"
    /\ LET count == randint(NUM_PROJECTS_MIN, NUM_PROJECTS_MAX, nth(pos))
           base(i) == pos + 1 + project_block * (i - 1)
           project_type(i) == sample_project_type(nth(base(i)))
           team_id(i) ==
               IF self.team_ids /= <<>> /\ nth(base(i) + 1) < 80
               THEN choice(self.team_ids, nth(base(i) + 2))
               ELSE Null
           created(i) == call_created_at(base(i) + 3, date_range.start_date,
                                         date_range.end_date)
           modified(i) == call_created_at(base(i) + 10, created(i).value,
                                          date_range.end_date)
           calls == flatten([i \in 1..count |->
                                <<created(i), modified(i)>>])
           bad == first_bad(calls \o <<returned>>)
           projects_data == [i \in 1..count |->
                                [project_id |-> uuid + i,
                                 organization_id |-> self.organization_id,
                                 team_id |-> team_id(i),
                                 created_at |-> isoformat(created(i).value),
                                 modified_at |-> isoformat(modified(i).value)]]
       IN  /\ stage' = after(bad, after_projects(count))
           /\ run' = [run EXCEPT !.loop = loop_of(bad), !.project = 1]
           /\ pos' = (pos + 1 + project_block * count) % Cycle
           /\ uuid' = uuid + count
           /\ IF bad.status = "return"
              THEN /\ db' = [db EXCEPT !.projects = @ \o projects_data]
                   /\ self' = [self EXCEPT !.project_info =
                                    [i \in 1..count |->
                                        [project_id |-> uuid + i,
                                         project_type |-> project_type(i),
                                         team_id |-> team_id(i)]]]
              ELSE UNCHANGED <<db, self>>
    /\ clock' = clock + 1
    /\ UNCHANGED <<samplers, rng, config, date_range>>

\* SELECT created_at FROM <table> WHERE <key> = id: the first matching row,
\* <<>> when there is none.
select(rows, key, id) ==
    LET found == {i \in 1..Len(rows) : rows[i][key] = id}
    IN  IF found = {} THEN <<>>
        ELSE rows[CHOOSE i \in found : \A j \in found : i <= j]

\* main.py 188-193, 231-237: the created_at text of a project, the text of
\* the global start when the row is missing.
project_created_at(project_id) ==
    LET result == select(db.projects, "project_id", project_id)
    IN  IF result /= <<>> THEN result.created_at
        ELSE isoformat(date_range.start_date)

\* Config.SECTION_TEMPLATES (config.py 75-82): the number of section names
\* of a project type.
section_names(project_type) ==
    IF project_type = "operations" THEN 4 ELSE 6

\* Where the loop over self.project_info of a stage goes after project
\* number i.
next_project(i, this_stage, next_stage) ==
    IF i < Len(self.project_info) THEN this_stage ELSE next_stage

\* main.py 186-196 and sections.py 52-77: one pass of the loop over the
\* projects; nothing catches an exception here, be it of
\* generate_created_at or of the INSERT (sections.py 79-86).
GenerateSections ==
    /\ stage = "sections"
    /\ \E raises \in BOOLEAN :
       LET info == self.project_info[run.project]
           project_dt == fromisoformat(project_created_at(info.project_id))
           n == section_names(info.project_type)
           calls == [position \in 1..n |->
                        call_created_at(pos + 7 * (position - 1), project_dt,
                                        date_range.end_date)]
           bad == executemany(first_bad(calls), raises)
           sections_data == [position \in 1..n |->
                                [section_id |-> uuid + position,
                                 project_id |-> info.project_id,
                                 position |-> position - 1,
                                 created_at |->
                                    isoformat(calls[position].value)]]
       IN  /\ stage' = after(bad, next_project(run.project, "sections",
                                               "tasks"))
           /\ pos' = (pos + 7 * n) % Cycle
           /\ uuid' = uuid + n
           /\ IF bad.status = "return"
              THEN /\ db' = [db EXCEPT !.sections = @ \o sections_data]
                   /\ run' = [run EXCEPT
                                !.project_sections =
                                    @ \o <<[project_id |-> info.project_id,
                                            section_ids |->
                                                [position \in 1..n |->
                                                    uuid + position]]>>,
                                !.project = IF run.project
                                                < Len(self.project_info)
                                            THEN run.project + 1 ELSE 1]
              ELSE /\ run' = [run EXCEPT !.loop = loop_of(bad)]
                   /\ UNCHANGED db
    /\ clock' = clock + 1
    /\ UNCHANGED <<samplers, rng, config, date_range, self>>

\* Config.UNASSIGNED_TASK_RATE, in hundredths.
UNASSIGNED_TASK_RATE == 15

\* tasks.py 200-207: the completion rate of a project type, in hundredths.
completion_rate_of(project_type) ==
    CASE project_type = "engineering_sprint" -> 75
      [] project_type = "bug_tracking" -> 65
      [] project_type = "marketing_campaign" -> 70
      [] project_type = "product_roadmap" -> 60
      [] project_type = "operations" -> 65
      [] OTHER -> 70

\* The draws one task takes: section, assignee gate, assignee, created_at,
\* due date, completed, completed_at, modified_at.
task_block == 27

\* The text of an optional date and of an optional instant.
date_text(d) == IF d /= Null THEN date_isoformat(d) ELSE NULL
instant_text(t) == IF t /= Null THEN isoformat(t) ELSE NULL

\* tasks.py 211-261: one pass of the loop over the tasks of a project, with
\* its draws starting at b; the calls that can fail, in program order, and
\* the row appended to tasks_data.
task_of(b, task_id, project_id, project_type, section_ids, user_ids, project_dt) ==
    LET section_id == IF section_ids /= <<>>
                      THEN choice(section_ids, nth(b)) ELSE Null
        assignee_id == IF user_ids /= <<>> /\ nth(b + 1) > UNASSIGNED_TASK_RATE
                       THEN choice(user_ids, nth(b + 2)) ELSE Null
        created == call_created_at(b + 3, project_dt, date_range.end_date)
        created_at == created.value
        due_date == generate_due_date(created_at, drawn_due_date(b + 10))
        completion_rate == completion_rate_of(project_type)
        completed == nth(b + 13) < completion_rate
        completed_at ==
            IF completed
            THEN generate_completed_at(created_at, due_date, completion_rate,
                    TRUE, TRUE, drawn_completed_at(b + 14)).value
            ELSE Null
        modified == call_created_at(b + 20, created_at,
                        IF completed_at /= Null THEN completed_at
                        ELSE date_range.end_date)
    IN  [calls |-> <<created, modified>>,
         row |-> [task_id |-> task_id,
                  project_id |-> project_id,
                  section_id |-> section_id,
                  assignee_id |-> assignee_id,
                  due_date |-> date_text(due_date),
                  completed |-> IF completed THEN 1 ELSE 0,
                  completed_at |-> instant_text(completed_at),
                  created_at |-> isoformat(created_at),
                  modified_at |-> isoformat(modified.value),
                  parent_task_id |-> Null,
                  num_subtasks |-> 0,
                  num_completed_subtasks |-> 0]]

\* Config.CUSTOM_FIELD_TYPES (config.py 85-92).
CUSTOM_FIELD_TYPES(project_type) ==
    CASE project_type = "engineering_sprint" -> <<"priority", "effort", "sprint">>
      [] project_type = "bug_tracking" -> <<"severity", "priority", "reproducibility">>
      [] project_type = "marketing_campaign" -> <<"channel", "priority", "status">>
      [] project_type = "product_roadmap" -> <<"priority", "effort", "status">>
      [] project_type = "operations" -> <<"priority", "category">>
      [] OTHER -> <<"priority", "status">>

\* custom_fields.py 80-91: the stored type of a field.
db_type(field_type) ==
    IF field_type \in {"priority", "severity", "status", "category", "effort",
                       "sprint", "channel"}
    THEN "enum" ELSE "text"

\* The sections of the first project of the dictionary, whatever the key.
sections_of_first(project_id) ==
    IF run.project_sections = <<>> THEN <<>>
    ELSE run.project_sections[1].section_ids

\* project_sections.get(project_id, []) of main.py 217.
sections_of(project_id) ==
    LET found == SelectSeq(run.project_sections,
                           LAMBDA e : e.project_id = project_id)
    IN  IF found = <<>> THEN <<>> ELSE found[1].section_ids

\* main.py 220-227: the users the tasks of a project are assigned to.
team_users(team_id) ==
    IF team_id /= Null
    THEN LET rows == SelectSeq(db.team_memberships,
                               LAMBDA m : m.team_id = team_id)
         IN  [i \in 1..Len(rows) |-> rows[i].user_id]
    ELSE self.user_ids

\* The run after the pass of the loop of main.py 215 over project number
\* run.project.
to_next_project ==
    [run EXCEPT !.project = run.project + 1, !.task = 1]

\* tasks.py 190-192: the number of tasks of project number run.project.
drawn_num_tasks ==
    randint(TASKS_PER_PROJECT_MIN, TASKS_PER_PROJECT_MAX, nth(pos))

\* tasks.py 211-264: pass number i of the loop over the tasks of project
\* number run.project, as main.py 217-245 calls generate_tasks for it.
generated_task(i) ==
    LET info == self.project_info[run.project]
    IN  task_of(pos + 1 + task_block * (i - 1), uuid + i,
                info.project_id, info.project_type,
                sections_of(info.project_id), team_users(info.team_id),
                fromisoformat(project_created_at(info.project_id)))

generated_tasks == [i \in 1..drawn_num_tasks |-> generated_task(i)]

\* The outcome of that call of generate_tasks: its first call of
\* generate_created_at that did not return, else a call that returned.
generate_tasks_outcome ==
    first_bad(flatten([i \in 1..drawn_num_tasks |->
                          generated_task(i).calls]) \o <<returned>>)

\* An except clause that lets the exception pass as if the call returned.
raised_unnoticed(bad) == FALSE

\* main.py 249-254: the call ended with an exception, which the except
\* clause catches.
raised(bad) == bad.status \notin {"return", "loop"}

\* main.py 215-261 and custom_fields.py 45-110: one pass of the loop over
\* the projects, up to the loop over its tasks.  An exception of
\* generate_tasks skips the project (lines 248-253); one of
\* generate_custom_fields (lines 256-261), be it of generate_created_at or
\* of its INSERT, is not caught.
GenerateTasks ==
    /\ stage = "tasks"
    /\ \E raises \in BOOLEAN :
       LET info == self.project_info[run.project]
           section_ids == sections_of(info.project_id)
           team_user_ids == team_users(info.team_id)
           project_dt == fromisoformat(project_created_at(info.project_id))
           num_tasks == drawn_num_tasks
           tasks == generated_tasks
           task_ids == [i \in 1..num_tasks |-> uuid + i]
           bad_task == generate_tasks_outcome
           with_tasks == [db EXCEPT !.tasks =
                            @ \o [i \in 1..num_tasks |-> tasks[i].row]]
           field_types == CUSTOM_FIELD_TYPES(info.project_type)
           fpos == pos + 1 + task_block * TASKS_PER_PROJECT_MAX
           first_field == uuid + num_tasks
           field_calls == [k \in 1..Len(field_types) |->
                            call_created_at(fpos + 7 * (k - 1), project_dt,
                                            date_range.end_date)]
           bad_field == executemany(first_bad(field_calls \o <<returned>>),
                                    raises /\ field_types /= <<>>)
           fields_data == [k \in 1..Len(field_types) |->
                            [field_id |-> first_field + k,
                             project_id |-> info.project_id,
                             type |-> db_type(field_types[k]),
                             created_at |->
                                isoformat(field_calls[k].value)]]
           with_fields == [with_tasks EXCEPT !.custom_field_definitions =
                                @ \o fields_data]
       IN  /\ pos' = (fpos + 7 * Len(field_types)) % Cycle
           /\ uuid' = first_field + Len(field_types)
           /\ IF bad_task.status = "loop"
              THEN /\ stage' = "looping"
                   /\ run' = [run EXCEPT !.loop = loop_of(bad_task)]
                   /\ UNCHANGED db
              ELSE IF raised(bad_task)
              THEN /\ stage' = next_project(run.project, "tasks", "tags")
                   /\ run' = to_next_project
                   /\ UNCHANGED db
              ELSE IF bad_field.status /= "return"
              THEN /\ stage' = after(bad_field, "tasks")
                   /\ run' = [run EXCEPT !.loop = loop_of(bad_field),
                                !.all_task_ids = @ \o task_ids]
                   /\ db' = with_tasks
              ELSE /\ stage' = "task"
                   /\ run' = [run EXCEPT !.all_task_ids = @ \o task_ids,
                                !.task_ids = task_ids,
                                !.field_ids =
                                    [k \in 1..Len(field_types) |->
                                        first_field + k],
                                !.team_user_ids = team_user_ids,
                                !.task = 1]
                   /\ db' = with_fields
    /\ clock' = clock + 1
    /\ UNCHANGED <<samplers, rng, config, date_range, self>>

\* The most subtasks and comments of a task (random.randint(1, 5) of
\* subtasks.py 61 and comments.py 113, scaled down).
MaxSubtasks == 2
MaxComments == 2

\* The draws one subtask takes: created_at, due date, completed,
\* completed_at, modified_at.
subtask_block == 25

\* The parent's due date parsed without the try of subtasks.py 74-77.
parse_due_date_unguarded(parent_due_date) ==
    IF parent_due_date /= NULL
    THEN date(fromisoformat(parent_due_date)) ELSE Null

\* subtasks.py 73-79: the parent's due date, None when the text is empty or
\* fromisoformat raises on it.
parse_due_date(parent_due_date) ==
    IF parent_due_date /= NULL /\ parses(parent_due_date)
    THEN date(fromisoformat(parent_due_date)) ELSE Null

\* subtasks.py 96-180: one pass of the loop over the subtasks of the task
\* row parent, with its draws starting at b.
subtask_of(b, subtask_id, parent, assignee_id) ==
    LET parent_dt == fromisoformat(parent.created_at)
        parent_due == parse_due_date(parent.due_date)
        parent_completed == parent.completed = 1
        created == call_created_at(b, parent_dt, date_range.end_date)
        created_at == created.value
        due_date == IF parent_due /= Null
                    THEN parent_due - randint(0, 7, nth(b + 7))
                    ELSE generate_due_date(created_at, drawn_due_date(b + 7))
        completion_rate == IF parent_completed THEN 90 ELSE 70
        completed == nth(b + 10) < completion_rate
        completion ==
            IF ~completed THEN returned
            ELSE IF parent_completed /\ parent.completed_at /= NULL
            THEN call_created_at(b + 11, created_at,
                                 fromisoformat(parent.completed_at))
            ELSE [returned EXCEPT !.value =
                    generate_completed_at(created_at, due_date,
                        completion_rate, TRUE, TRUE,
                        drawn_completed_at(b + 11)).value]
        completed_at == completion.value
        modified == call_created_at(b + 18, created_at,
                        IF completed_at /= Null THEN completed_at
                        ELSE date_range.end_date)
    IN  [calls |-> <<created, completion, modified>>,
         row |-> [task_id |-> subtask_id,
                  project_id |-> parent.project_id,
                  section_id |-> parent.section_id,
                  assignee_id |-> assignee_id,
                  due_date |-> date_text(due_date),
                  completed |-> IF completed THEN 1 ELSE 0,
                  completed_at |-> instant_text(completed_at),
                  created_at |-> isoformat(created_at),
                  modified_at |-> isoformat(modified.value),
                  parent_task_id |-> parent.task_id,
                  num_subtasks |-> 0,
                  num_completed_subtasks |-> 0]]

\* The count of subtasks.py 203 without its condition.
num_completed_unconditional(rows) == Len(rows)

\* The number of rows of subtasks_data with completed = 1 (subtasks.py 203).
RECURSIVE num_completed(_)
num_completed(rows) ==
    IF rows = <<>> THEN 0
    ELSE (IF rows[1].completed = 1 THEN 1 ELSE 0) + num_completed(Tail(rows))

\* The UPDATE of subtasks.py 204-211 without its WHERE clause.
insert_subtasks_update_all(database, parent_task_id, rows) ==
    [database EXCEPT !.tasks =
        [i \in 1..Len(@) |->
            [@[i] EXCEPT !.num_subtasks = Len(rows),
                         !.num_completed_subtasks = num_completed(rows)]]
        \o rows]

\* subtasks.py 182-212: insert the subtasks and update the counts of the
\* parent.
insert_subtasks(database, parent_task_id, rows) ==
    [database EXCEPT !.tasks =
        [i \in 1..Len(@) |->
            IF @[i].task_id = parent_task_id
            THEN [@[i] EXCEPT !.num_subtasks = Len(rows),
                              !.num_completed_subtasks = num_completed(rows)]
            ELSE @[i]] \o rows]

\* The draws one comment takes: author, created_at.
comment_block == 8

\* main.py 281 and subtasks.py 57-61: the number of subtasks of a task, none
\* when a gate closes.
drawn_num_subtasks ==
    IF nth(pos) < 30 /\ ~(nth(pos + 1) > 30)
    THEN randint(1, MaxSubtasks, nth(pos + 2)) ELSE 0

\* subtasks.py 96-177: pass number i of the loop over the subtasks of task
\* number run.task of the project.
generated_subtask(i) ==
    LET task_info == select(db.tasks, "task_id", run.task_ids[run.task])
    IN  subtask_of(pos + 3 + subtask_block * (i - 1), uuid + i,
                   task_info, task_info.assignee_id)

generated_subtasks == [i \in 1..drawn_num_subtasks |-> generated_subtask(i)]

\* The outcome of that call of generate_subtasks: its first call of
\* generate_created_at that did not return, else a call that returned.
generate_subtasks_outcome ==
    first_bad(flatten([i \in 1..drawn_num_subtasks |->
                          generated_subtask(i).calls]) \o <<returned>>)

\* main.py 264-327, subtasks.py 56-214, comments.py 109-152 and
\* custom_fields.py 112-194: one pass of the loop over the tasks of a
\* project.  Each of the three steps catches its exceptions; what the
\* earlier steps inserted stays.
ProcessTask ==
    /\ stage = "task"
    /\ LET task_id == run.task_ids[run.task]
           task_info == select(db.tasks, "task_id", task_id)
           \* subtasks
           num_subtasks == drawn_num_subtasks
           subtasks == generated_subtasks
           bad_subtask == generate_subtasks_outcome
           with_subtasks ==
               IF num_subtasks > 0 /\ bad_subtask.status = "return"
               THEN insert_subtasks(db, task_id,
                        [i \in 1..num_subtasks |-> subtasks[i].row])
               ELSE db
           \* comments
           cpos == pos + 3 + subtask_block * MaxSubtasks
           first_comment == uuid + MaxSubtasks
           num_comments == IF nth(cpos) > 40 \/ run.team_user_ids = <<>>
                           THEN 0
                           ELSE randint(1, MaxComments, nth(cpos + 1))
           task_dt == fromisoformat(task_info.created_at)
           end_dt == IF task_info.completed_at /= NULL
                     THEN fromisoformat(task_info.completed_at)
                     ELSE date_range.end_date
           comment_calls == [i \in 1..num_comments |->
                                call_created_at(
                                    cpos + 3 + comment_block * (i - 1),
                                    task_dt, end_dt)]
           bad_comment == first_bad(comment_calls \o <<returned>>)
           comments_data == [i \in 1..num_comments |->
                                [comment_id |-> first_comment + i,
                                 task_id |-> task_id,
                                 user_id |->
                                    choice(run.team_user_ids,
                                        nth(cpos + 2
                                            + comment_block * (i - 1))),
                                 created_at |->
                                    isoformat(comment_calls[i].value)]]
           with_comments ==
               IF bad_comment.status = "return"
               THEN [with_subtasks EXCEPT !.comments = @ \o comments_data]
               ELSE with_subtasks
           \* custom field values: created_at is datetime.now()
           vpos == cpos + 2 + comment_block * MaxComments
           first_value == first_comment + MaxComments
           values_data == [k \in 1..Len(run.field_ids) |->
                            [value_id |-> first_value + k,
                             task_id |-> task_id,
                             field_id |-> run.field_ids[k],
                             created_at |-> isoformat(clock)]]
           with_values ==
               IF values_data /= <<>> /\ nth(vpos + Len(run.field_ids)) < 70
               THEN [with_comments EXCEPT !.custom_field_values =
                        @ \o values_data]
               ELSE with_comments
           last == run.task = Len(run.task_ids)
       IN  /\ pos' = (vpos + Len(run.field_ids) + 1) % Cycle
           /\ uuid' = first_value + Len(run.field_ids)
           /\ IF bad_subtask.status = "loop"
              THEN /\ stage' = "looping"
                   /\ run' = [run EXCEPT !.loop = loop_of(bad_subtask)]
                   /\ UNCHANGED db
              ELSE IF bad_comment.status = "loop"
              THEN /\ stage' = "looping"
                   /\ run' = [run EXCEPT !.loop = loop_of(bad_comment)]
                   /\ db' = with_subtasks
              ELSE /\ stage' = IF last
                               THEN next_project(run.project, "tasks", "tags")
                               ELSE "task"
                   /\ run' = IF last THEN to_next_project
                             ELSE [run EXCEPT !.task = run.task + 1]
                   /\ db' = with_values
    /\ clock' = clock + 1
    /\ UNCHANGED <<samplers, rng, config, date_range, self>>

\* len(TAG_NAMES) of tags.py 17-33, scaled down.
TAG_NAMES == 2

\* main.py 332-341 and tags.py 54-97.
GenerateTags ==
    /\ stage = "tags"
    /\ LET count == TAG_NAMES
           calls == [i \in 1..count |->
                        call_created_at(pos + 1 + 8 * (i - 1),
                            date_range.start_date, date_range.end_date)]
           bad == first_bad(calls \o <<returned>>)
           tags_data == [i \in 1..count |->
                            [tag_id |-> uuid + i,
                             organization_id |-> self.organization_id,
                             created_at |-> isoformat(calls[i].value)]]
       IN  /\ stage' = after(bad, "assign_tags")
           /\ run' = [run EXCEPT !.loop = loop_of(bad)]
           /\ pos' = (pos + 8 * count) % Cycle
           /\ uuid' = uuid + count
           /\ IF bad.status = "return"
              THEN /\ db' = [db EXCEPT !.tags = @ \o tags_data]
                   /\ self' = [self EXCEPT !.tag_ids =
                                    [i \in 1..count |-> uuid + i]]
              ELSE UNCHANGED <<db, self>>
    /\ clock' = clock + 1
    /\ UNCHANGED <<samplers, rng, config, date_range>>

\* The most tags of a task (random.randint(0, 3) of tags.py 114).
max_tags == 3

\* The draws one task takes in assign_tags_to_tasks: gate, count, sample,
\* one created_at per tag.
tag_block == 3 + 7 * max_tags

\* random.choices(population, k=k) in the place of random.sample, for k
\* draws that agree.
choices(population, k, x) == [j \in 1..k |-> choice(population, x)]

\* random.sample(population, k) for k <= len(population): k elements at
\* distinct places of the population, here k successive places from the
\* place number x of a hundred picks, going round.
sample(population, k, x) ==
    LET n == Len(population)
        first == randint(0, n - 1, x)
    IN  [j \in 1..k |-> population[((first + j - 1) % n) + 1]]

\* main.py 343-350 and tags.py 99-133; then generate_all prints the summary
\* and closes the database.
AssignTagsToTasks ==
    /\ stage = "assign_tags"
    /\ LET task_ids == run.all_task_ids
           base(i) == pos + tag_block * (i - 1)
           num_tags(i) == IF nth(base(i)) < 30
                          THEN randint(0, max_tags, nth(base(i) + 1)) ELSE 0
           selected_tags(i) ==
               IF num_tags(i) > 0
               THEN sample(self.tag_ids,
                           IF num_tags(i) < Len(self.tag_ids)
                           THEN num_tags(i) ELSE Len(self.tag_ids),
                           nth(base(i) + 2))
               ELSE <<>>
           created(i, j) == call_created_at(base(i) + 3 + 7 * (j - 1),
                                date_range.start_date, date_range.end_date)
           calls == flatten([i \in 1..Len(task_ids) |->
                        [j \in 1..Len(selected_tags(i)) |-> created(i, j)]])
           bad == first_bad(calls \o <<returned>>)
           associations_data ==
               flatten([i \in 1..Len(task_ids) |->
                   [j \in 1..Len(selected_tags(i)) |->
                       [association_id |-> uuid + max_tags * (i - 1) + j,
                        task_id |-> task_ids[i],
                        tag_id |-> selected_tags(i)[j],
                        created_at |-> isoformat(created(i, j).value)]]])
       IN  /\ stage' = after(bad, "done")
           /\ run' = [run EXCEPT !.loop = loop_of(bad)]
           /\ pos' = (pos + tag_block * Len(task_ids)) % Cycle
           /\ uuid' = uuid + max_tags * Len(task_ids)
           /\ db' = IF bad.status = "return"
                    THEN [db EXCEPT !.task_tags = @ \o associations_data]
                    ELSE db
    /\ clock' = clock + 1
    /\ UNCHANGED <<samplers, rng, config, date_range, self>>

\* ---- assign_tags_to_tasks called on its own ----

\* The most tasks and the largest tag pool handed to the call.
MaxTaggedTasks == 2
MaxTagPool == 4

\* TagGenerator.assign_tags_to_tasks(task_ids, tag_ids, 0.30) for lists of
\* distinct ids, as AsanaDataGenerator.assign_tags_to_tasks calls it.
InitAssignTags ==
    /\ ca = Null /\ dd = Null /\ cp = Null
    /\ LoopsIdle
    /\ rng \in [1..Period -> DrawValues]
    /\ pos = 0
    /\ \E now \in Nows : clock = now /\ date_range = get_date_range(now)
    /\ config = [NUM_ORGANIZATIONS |-> 1]
    /\ stage = "assign_tags"
    /\ db = EmptyDatabase
    /\ \E tasks \in 0..MaxTaggedTasks, tags \in 0..MaxTagPool :
          /\ self = [organization_id |-> Null, user_ids |-> <<>>,
                     team_ids |-> <<>>, project_info |-> <<>>,
                     tag_ids |-> [j \in 1..tags |-> tasks + j]]
          /\ run = [project_sections |-> <<>>,
                    all_task_ids |-> [i \in 1..tasks |-> i], project |-> 1,
                    task_ids |-> <<>>, field_ids |-> <<>>,
                    team_user_ids |-> <<>>, task |-> 1, loop |-> <<>>]
          /\ uuid = tasks + tags

NextAssignTags == AssignTagsToTasks

SpecAssignTags == InitAssignTags /\ [][NextAssignTags]_vars

\* ---- generate_tasks called on its own ----

\* The projects the call finds.
TaskedProjects == 2

\* AsanaDataGenerator.generate_tasks(project_sections) as generate_all calls
\* it (main.py 369): one organization, one user in one team, TaskedProjects
\* projects of that team created at the start of the window (a sprint, then
\* operations), each with the sections of its type.
InitTasks ==
    /\ ca = Null /\ dd = Null /\ cp = Null
    /\ LoopsIdle
    /\ rng \in [1..Period -> DrawValues]
    /\ pos = 0
    /\ \E now \in Nows : clock = now /\ date_range = get_date_range(now)
    /\ config = [NUM_ORGANIZATIONS |-> 1]
    /\ stage = "tasks"
    /\ LET created_at == isoformat(date_range.start_date)
           project_type(i) == IF i = 1 THEN "engineering_sprint"
                              ELSE "operations"
           project_id(i) == 4 + i
           first_section(i) == 4 + TaskedProjects + 6 * (i - 1)
           section_ids(i) == [position \in 1..section_names(project_type(i))
                                |-> first_section(i) + position]
       IN  /\ self = [organization_id |-> 1, user_ids |-> <<2>>,
                      team_ids |-> <<3>>,
                      project_info |->
                          [i \in 1..TaskedProjects |->
                              [project_id |-> project_id(i),
                               project_type |-> project_type(i),
                               team_id |-> 3]],
                      tag_ids |-> <<>>]
           /\ db = [EmptyDatabase EXCEPT
                      !.organizations =
                          <<[organization_id |-> 1,
                             created_at |-> created_at]>>,
                      !.users =
                          <<[user_id |-> 2, organization_id |-> 1,
                             created_at |-> created_at]>>,
                      !.teams =
                          <<[team_id |-> 3, organization_id |-> 1,
                             created_at |-> created_at]>>,
                      !.team_memberships =
                          <<[membership_id |-> 4, team_id |-> 3,
                             user_id |-> 2, joined_at |-> created_at]>>,
                      !.projects =
                          [i \in 1..TaskedProjects |->
                              [project_id |-> project_id(i),
                               organization_id |-> 1, team_id |-> 3,
                               created_at |-> created_at,
                               modified_at |-> created_at]],
                      !.sections =
                          flatten([i \in 1..TaskedProjects |->
                              [position \in
                                    1..section_names(project_type(i)) |->
                                  [section_id |->
                                        first_section(i) + position,
                                   project_id |-> project_id(i),
                                   position |-> position - 1,
                                   created_at |-> created_at]]])]
           /\ run = [project_sections |->
                        [i \in 1..TaskedProjects |->
                            [project_id |-> project_id(i),
                             section_ids |-> section_ids(i)]],
                     all_task_ids |-> <<>>, project |-> 1,
                     task_ids |-> <<>>, field_ids |-> <<>>,
                     team_user_ids |-> <<>>, task |-> 1, loop |-> <<>>]
           /\ uuid = 4 + TaskedProjects + 6 * TaskedProjects

NextTasks == GenerateTasks \/ ProcessTask

SpecTasks == InitTasks /\ [][NextTasks]_vars

\* ---- one pass of the loop over the tasks, on its own ----

\* The days from the parent's creation to its due date, and the hours to
\* its late completion.
ParentDueDays == 2
ParentLateHours == 51

\* The draws the run has made before the pass.
SubtaskDraw == 4

\* The pass of main.py 264-327 over a task of an operations project, in the
\* run that ends on the Wednesday; the task was created a day after the
\* start of the window: with no due date, a due date two days on or a
\* due_date text that does not parse; open, completed within the hour or
\* completed after the due date.
InitSubtasks ==
    /\ ca = Null /\ dd = Null /\ cp = Null
    /\ LoopsIdle
    /\ rng \in [1..Period -> DrawValues]
    /\ pos = SubtaskDraw
    /\ \E now \in Nows :
          weekday(now) = 2 /\ clock = now /\ date_range = get_date_range(now)
    /\ config = [NUM_ORGANIZATIONS |-> 1]
    /\ stage = "task"
    /\ self = [organization_id |-> 1, user_ids |-> <<2>>, team_ids |-> <<3>>,
               project_info |-> <<[project_id |-> 5,
                                   project_type |-> "operations",
                                   team_id |-> 3]>>,
               tag_ids |-> <<>>]
    /\ run = [project_sections |->
                  <<[project_id |-> 5, section_ids |-> <<6, 7, 8, 9>>]>>,
              all_task_ids |-> <<10>>, project |-> 1, task_ids |-> <<10>>,
              field_ids |-> <<11, 12>>, team_user_ids |-> <<2>>, task |-> 1,
              loop |-> <<>>]
    /\ uuid = 12
    /\ LET project_dt == date_range.start_date
           created_at == plus_days(project_dt, 1)
           due == date(created_at) + ParentDueDays
       IN  \E due_date \in {NULL, date_isoformat(due),
                             <<due, SecondsPerDay>>},
              completed_at \in {Null, plus_hours(created_at, 1),
                                plus_hours(created_at, ParentLateHours)} :
              db = [EmptyDatabase EXCEPT
                      !.organizations =
                          <<[organization_id |-> 1,
                             created_at |-> isoformat(project_dt)]>>,
                      !.users =
                          <<[user_id |-> 2, organization_id |-> 1,
                             created_at |-> isoformat(project_dt)]>>,
                      !.teams =
                          <<[team_id |-> 3, organization_id |-> 1,
                             created_at |-> isoformat(project_dt)]>>,
                      !.team_memberships =
                          <<[membership_id |-> 4, team_id |-> 3,
                             user_id |-> 2,
                             joined_at |-> isoformat(project_dt)]>>,
                      !.projects =
                          <<[project_id |-> 5, organization_id |-> 1,
                             team_id |-> 3,
                             created_at |-> isoformat(project_dt),
                             modified_at |-> isoformat(project_dt)]>>,
                      !.sections =
                          [position \in 1..section_names("operations") |->
                              [section_id |-> 5 + position,
                               project_id |-> 5,
                               position |-> position - 1,
                               created_at |-> isoformat(project_dt)]],
                      !.tasks =
                          <<[task_id |-> 10, project_id |-> 5,
                             section_id |-> 6, assignee_id |-> 2,
                             due_date |-> due_date,
                             completed |->
                                IF completed_at /= Null THEN 1 ELSE 0,
                             completed_at |-> instant_text(completed_at),
                             created_at |-> isoformat(created_at),
                             modified_at |-> isoformat(created_at),
                             parent_task_id |-> Null, num_subtasks |-> 0,
                             num_completed_subtasks |-> 0]>>,
                      !.custom_field_definitions =
                          [k \in 1..2 |->
                              [field_id |-> 10 + k, project_id |-> 5,
                               type |-> "enum",
                               created_at |-> isoformat(project_dt)]]]

NextSubtasks == ProcessTask

SpecSubtasks == InitSubtasks /\ [][NextSubtasks]_vars

\* dates.py 58-59: one more pass of a weekend loop whose window holds no
\* Saturday and no Sunday; the candidate is drawn again.
WeekendLoop ==
    /\ stage = "looping"
    /\ weekday(run.loop.candidate_date) <= 4
    /\ run' = [run EXCEPT !.loop.candidate_date =
                    plus_days(run.loop.start_date,
                        randint(0, days_range(run.loop.start_date,
                                              run.loop.end_date),
                                nth(pos)))]
    /\ pos' = (pos + 1) % Cycle
    /\ UNCHANGED <<samplers, rng, clock, config, date_range, stage, db, self,
                   uuid>>

Next ==
    \/ GenerateOrganizations
    \/ GenerateUsers
    \/ GenerateTeams
    \/ GenerateProjects
    \/ GenerateSections
    \/ GenerateTasks
    \/ ProcessTask
    \/ GenerateTags
    \/ AssignTagsToTasks
    \/ WeekendLoop

Spec == Init /\ [][Next]_vars

\* The interpreter keeps executing a loop it is in.
FairSpec == Spec /\ WF_vars(WeekendLoop)

\* ---- the persisted rows ----

\* The rows of a table.
rows_of(table) == {table[i] : i \in 1..Len(table)}

\* The instant a stored text stands for.
at(text) == fromisoformat(text)

\* The top-level tasks and the subtasks.
top_level_tasks == {t \in rows_of(db.tasks) : t.parent_task_id = Null}
subtask_rows == {t \in rows_of(db.tasks) : t.parent_task_id /= Null}

\* Every created_at text the database holds.
all_created_at ==
    {r.created_at : r \in rows_of(db.organizations) \cup rows_of(db.users)
        \cup rows_of(db.teams) \cup rows_of(db.projects)
        \cup rows_of(db.sections) \cup rows_of(db.tasks)
        \cup rows_of(db.comments) \cup rows_of(db.tags)
        \cup rows_of(db.task_tags) \cup rows_of(db.custom_field_definitions)
        \cup rows_of(db.custom_field_values)}

\* ------------------------------------------------------------------------
\* Claims
\* ------------------------------------------------------------------------

\* C1: generate_created_at returns t with start_date <= t <= end_date for
\* every window with start_date <= end_date (compared as full instants).
C1_CreatedAtWithinWindow ==
    (ca.pc = "return" /\ ca.start_date <= ca.end_date) =>
        (ca.start_date <= ca.result /\ ca.result <= ca.end_date)

\* C2: every run of generate_all terminates: a run that is inside the
\* timestamp sampling of a stage eventually finishes all stages or stops
\* with an error; no stage loops forever.
C2_RunTerminates == (stage = "looping") ~> (stage \in {"done", "failed"})

\* C3: the created_at (joined_at) of every persisted child is at or after
\* the created_at of its parent, as full instants.
C3_CausalOrdering ==
    /\ \A o \in rows_of(db.organizations) :
          \A c \in rows_of(db.users) \cup rows_of(db.teams)
                    \cup rows_of(db.projects) :
             c.organization_id = o.organization_id
                => at(c.created_at) >= at(o.created_at)
    /\ \A t \in rows_of(db.teams), m \in rows_of(db.team_memberships) :
          m.team_id = t.team_id => at(m.joined_at) >= at(t.created_at)
    /\ \A p \in rows_of(db.projects) :
          \A c \in rows_of(db.sections) \cup top_level_tasks
                    \cup rows_of(db.custom_field_definitions) :
             c.project_id = p.project_id
                => at(c.created_at) >= at(p.created_at)
    /\ \A t \in top_level_tasks :
          /\ \A c \in subtask_rows :
                c.parent_task_id = t.task_id
                    => at(c.created_at) >= at(t.created_at)
          /\ \A c \in rows_of(db.comments) :
                c.task_id = t.task_id
                    => at(c.created_at) >= at(t.created_at)

\* C4: every non-null result of generate_completed_at is strictly after
\* created_at, whatever the due date and the completion rate.
C4_CompletedAfterCreated ==
    (cp.pc = "return" /\ cp.result /= Null) => cp.result > cp.created_at

\* C4's case: the due instant is not after created_at, the candidate was
\* pulled before it and the repair of lines 196-197 produced the result.
C4_Witness ==
    /\ cp.pc = "return"
    /\ cp.due_date /= Null
    /\ combine(cp.due_date) <= cp.created_at
    /\ cp.result = plus_hours(cp.created_at, 1)

\* C5: every persisted task or subtask with a completed_at has it strictly
\* after its own created_at.
C5_PersistedCompletedAfterCreated ==
    \A t \in rows_of(db.tasks) :
        t.completed_at /= NULL => at(t.completed_at) > at(t.created_at)

\* C6: every persisted task or subtask with a due_date and a completed_at
\* is completed no later than the due instant (midnight of the due date)
\* plus 3 days.
C6_CompletedWithinThreeDaysOfDue ==
    \A t \in rows_of(db.tasks) :
        (t.due_date /= NULL /\ t.completed_at /= NULL)
            => at(t.completed_at) <= plus_days(at(t.due_date), 3)

\* C7: every persisted task or subtask with a due_date has it on or after
\* the calendar date of its own created_at.
C7_PersistedDueNotBeforeCreation ==
    \A t \in rows_of(db.tasks) :
        t.due_date /= NULL => t.due_date[1] >= date(at(t.created_at))

\* C8: generate_due_date returns no date or a date on or after the calendar
\* day of created_at, in every branch and with or without the weekend shift.
C8_DueNotBeforeCreation ==
    (dd.pc = "return" /\ dd.result /= Null) =>
        dd.result >= date(dd.created_at)

\* C8's case: the overdue branch with offset 0 returned the creation day.
C8_Witness ==
    /\ dd.pc = "return"
    /\ dd.rand >= 10 /\ dd.rand < 15
    /\ dd.days = 0
    /\ dd.result = date(dd.created_at)

\* C9: every persisted task and subtask has created_at <= modified_at, and
\* modified_at <= completed_at when that is set, modified_at <= the global
\* end otherwise; every project has created_at <= modified_at.
C9_ModifiedBetweenCreatedAndCompleted ==
    /\ \A t \in rows_of(db.tasks) :
          /\ at(t.modified_at) >= at(t.created_at)
          /\ t.completed_at /= NULL
                => at(t.modified_at) <= at(t.completed_at)
          /\ t.completed_at = NULL
                => at(t.modified_at) <= date_range.end_date
    /\ \A p \in rows_of(db.projects) :
          at(p.modified_at) >= at(p.created_at)

\* C10: every persisted created_at lies between the global start and the
\* global end of the run.
C10_CreatedWithinGlobalWindow ==
    \A text \in all_created_at :
        /\ date_range.start_date <= at(text)
        /\ at(text) <= date_range.end_date

\* The stages of generate_all in the order of its calls (main.py 362-371);
\* the loop over the tasks of a project is part of the task stage.
generate_all_order ==
    <<"organizations", "users", "teams", "projects", "sections", "tasks",
      "tags", "assign_tags", "done">>

\* The place of a stage in generate_all.
rank(s) ==
    LET step == IF s = "task" THEN "tasks" ELSE s
    IN  CHOOSE i \in 1..Len(generate_all_order) : generate_all_order[i] = step

\* The stage whose handler writes the table.
writer(table) ==
    CASE table = "organizations" -> {"organizations"}
      [] table = "users" -> {"users"}
      [] table \in {"teams", "team_memberships"} -> {"teams"}
      [] table = "projects" -> {"projects"}
      [] table = "sections" -> {"sections"}
      [] table = "custom_field_definitions" -> {"tasks"}
      [] table = "tasks" -> {"tasks", "task"}
      [] table \in {"comments", "custom_field_values"} -> {"task"}
      [] table = "tags" -> {"tags"}
      [] table = "task_tags" -> {"assign_tags"}

\* The rows a step appends to a table.
added(table) ==
    SubSeq(db'[table], Len(db[table]) + 1, Len(db'[table]))

\* The step of a run that goes on: to the same stage (the next project or
\* task of its loop) or to the next one, past the loops over the projects
\* only when there is no project; sections to tasks only when every project
\* has its sections, and out of the tasks only after the last project.
InOrder ==
    stage' \notin {"failed", "looping"} =>
        /\ stage \notin {"failed", "looping", "done"}
        /\ rank(stage') >= rank(stage)
        /\ rank(stage') = rank(stage) => stage \in {"sections", "tasks", "task"}
        /\ rank(stage') > rank(stage) + 1 =>
                /\ stage = "projects" /\ stage' = "tags"
                /\ self'.project_info = <<>>
        /\ stage = "sections" /\ stage' = "tasks" =>
                \A i \in 1..Len(self.project_info) :
                    \E e \in rows_of(db'.sections) :
                        e.project_id = self.project_info[i].project_id
        /\ rank(stage) = rank("tasks") /\ stage' = "tags" =>
                run.project = Len(self.project_info)

\* Every table is written by its own stage only.
OwnStage ==
    \A table \in DOMAIN db :
        db'[table] /= db[table] => stage \in writer(table)

\* The rows a step adds refer to rows that were there before the step: a
\* task to sections of its project, a subtask, a comment and a custom-field
\* value to their task.
ParentsFirst ==
    /\ \A t \in rows_of(added("tasks")) :
            IF t.parent_task_id = Null
            THEN \E e \in rows_of(db.sections) : e.project_id = t.project_id
            ELSE \E parent \in rows_of(db.tasks) :
                    parent.task_id = t.parent_task_id
    /\ \A c \in rows_of(added("comments")) \cup
                 rows_of(added("custom_field_values")) :
            \E t \in rows_of(db.tasks) : t.task_id = c.task_id

\* C11: generate_all runs its stages strictly in the order organizations,
\* users, teams, projects, sections, tasks (with the subtasks, comments and
\* custom-field values of each task), tags, task-tag assignment; no stage
\* starts before the previous one has finished, the sections of a project
\* exist before any of its tasks, and a task exists before any of its
\* subtasks, comments or custom-field values.
C11_StagesInOrder == [][InOrder /\ OwnStage /\ ParentsFirst]_vars

\* A run that went through every stage and wrote every kind of child row.
C11_Witness ==
    /\ stage = "done"
    /\ subtask_rows /= {}
    /\ db.comments /= <<>>
    /\ db.custom_field_values /= <<>>
    /\ db.task_tags /= <<>>

\* A step of the loops over the projects does not end the run as failed.
StaysInLoop ==
    stage \in {"sections", "tasks", "task"} => stage' /= "failed"

\* C12: a failure while the children of one project are generated (its
\* sections, its tasks or its custom-field definitions) does not abort the
\* run: the orchestrator goes on to the remaining projects.
C12_ProjectFailureIsolated == [][StaysInLoop]_vars

\* C13: when no organization exists after the organization stage the run
\* aborts before the user stage persists a row: a run that is past the
\* organization stage and goes on has an organization, and no user, team or
\* project carries an absent organization id.
C13_NoRunWithoutOrganization ==
    /\ stage \notin {"organizations", "looping", "failed"} =>
            db.organizations /= <<>>
    /\ \A r \in rows_of(db.users) \cup rows_of(db.teams)
                \cup rows_of(db.projects) :
            r.organization_id /= Null

\* C14: the emails of the users generated in one call are pairwise distinct
\* and distinct from the emails the users table held before, also when all
\* ten attempts of a user collide and the suffixed email is used.
C14_EmailsDistinct ==
    /\ \A i, j \in 1..Len(ue.emails) :
            i /= j => ue.emails[i] /= ue.emails[j]
    /\ \A i \in 1..Len(ue.emails) :
            ue.emails[i] \notin ue.existing_emails

\* C15: the organization names generated in one run are pairwise distinct
\* for every NUM_ORGANIZATIONS, also when the twenty attempts all collide
\* and the fallback name "Organization i+1" is used.
C15_OrganizationNamesDistinct ==
    \A i, j \in 1..Len(on.names) : i /= j => on.names[i] /= on.names[j]

\* The loop has ended with two fallback names among the names.
C15_Witness ==
    /\ on.pc = "line110"
    /\ \E i, j \in 1..Len(on.names) :
          /\ i /= j
          /\ on.names[i] \notin B2B_SAAS_COMPANIES
          /\ on.names[j] \notin B2B_SAAS_COMPANIES

\* The row of the table whose column key holds id exists.
exists(table, key, id) == \E r \in rows_of(table) : r[key] = id

\* C16: whenever a run stops, completed or failed, no persisted row refers
\* to a missing row: a task to its project, to no section or one of its own
\* project, to no assignee or an existing user; a subtask to its parent; a
\* comment to its task and author; a task_tags row to its task and tag; a
\* custom-field value to its task and to a field of that task's project.
C16_NoDanglingReference ==
    /\ \A t \in rows_of(db.tasks) :
          /\ exists(db.projects, "project_id", t.project_id)
          /\ t.section_id = Null
                \/ \E e \in rows_of(db.sections) :
                      /\ e.section_id = t.section_id
                      /\ e.project_id = t.project_id
          /\ t.assignee_id = Null \/ exists(db.users, "user_id", t.assignee_id)
          /\ t.parent_task_id = Null
                \/ exists(db.tasks, "task_id", t.parent_task_id)
    /\ \A c \in rows_of(db.comments) :
          /\ exists(db.tasks, "task_id", c.task_id)
          /\ exists(db.users, "user_id", c.user_id)
    /\ \A a \in rows_of(db.task_tags) :
          /\ exists(db.tasks, "task_id", a.task_id)
          /\ exists(db.tags, "tag_id", a.tag_id)
    /\ \A v \in rows_of(db.custom_field_values) :
          \E t \in rows_of(db.tasks), f \in rows_of(db.custom_field_definitions) :
              /\ t.task_id = v.task_id
              /\ f.field_id = v.field_id
              /\ f.project_id = t.project_id

\* A run that failed after it had written the tasks of two projects, in
\* their sections, with comments and custom-field values.
C16_Witness ==
    /\ stage = "failed"
    /\ \E t, u \in top_level_tasks :
          /\ t.project_id /= u.project_id
          /\ t.section_id /= Null /\ u.section_id /= Null
    /\ db.comments /= <<>>
    /\ db.custom_field_values /= <<>>

\* C17: generate_completed_at never compares an aware instant with a naive
\* one, whatever the awareness of created_at and whether pytz is there: no
\* call ends with TypeError.
C17_NoMixedAwareness == cp.pc /= "TypeError"

\* C18: for created_at = 2024-03-01T00:00, due_date = 2024-03-10 and
\* completion_rate = 1.0 the call returns an instant, never null, strictly
\* after created_at, and either at or before 2024-03-10T00:00 or on
\* 2024-03-11, 2024-03-12 or 2024-03-13, for every cycle time and draw.
C18_MarchResult ==
    cp.pc /= "line164" =>
        /\ cp.pc = "return"
        /\ cp.result /= Null
        /\ cp.result > cp.created_at
        /\ cp.result <= combine(March10)
              \/ date(cp.result) \in (March10 + 1)..(March10 + 3)

\* The candidate of a long cycle time was past the due instant and the
\* late branch of line 193 put the result on 2024-03-13.
C18_Witness ==
    /\ cp.pc = "return"
    /\ cp.draws.cycle_time > March10 - March1
    /\ ~cp.draws.on_time
    /\ date(cp.result) = March10 + 3

\* The rows assign_tags_to_tasks adds for a task.
tags_added(task_id) ==
    SelectSeq(added("task_tags"), LAMBDA a : a.task_id = task_id)

\* What a call of assign_tags_to_tasks adds: at most three rows for a task,
\* with tags of the pool, no tag twice; none for a task whose gate draw is
\* not below the assignment rate; none at all, and no error, for an empty
\* pool.
TagsAssigned ==
    stage = "assign_tags" =>
        /\ \A i \in 1..Len(run.all_task_ids) :
              LET rows == tags_added(run.all_task_ids[i])
              IN  /\ Len(rows) <= 3
                  /\ \A j \in 1..Len(rows) :
                        /\ \E k \in 1..Len(self.tag_ids) :
                              self.tag_ids[k] = rows[j].tag_id
                        /\ \A k \in 1..Len(rows) :
                              k /= j => rows[k].tag_id /= rows[j].tag_id
                  /\ nth(pos + tag_block * (i - 1)) >= 30 => rows = <<>>
        /\ \A a \in rows_of(added("task_tags")) :
              \E i \in 1..Len(run.all_task_ids) :
                  run.all_task_ids[i] = a.task_id
        /\ self.tag_ids = <<>> =>
              added("task_tags") = <<>> /\ stage' = "done"

\* C19: in assign_tags_to_tasks each task receives at most 3 tags, all of
\* the given pool and none twice; a task that fails the assignment gate
\* receives none, and an empty pool yields no association and no error.
C19_TagsAssigned == [][TagsAssigned]_vars

\* The call has ended: the first of two tasks got three tags of a pool of
\* four, the second none.
C19_Witness ==
    /\ stage = "done"
    /\ Len(self.tag_ids) = MaxTagPool
    /\ Len(run.all_task_ids) = 2
    /\ Cardinality({a \in rows_of(db.task_tags) :
                        a.task_id = run.all_task_ids[1]}) = 3
    /\ \A a \in rows_of(db.task_tags) : a.task_id /= run.all_task_ids[2]

\* The primary key of a table.
primary_key(table) ==
    CASE table = "organizations" -> "organization_id"
      [] table = "users" -> "user_id"
      [] table = "teams" -> "team_id"
      [] table = "team_memberships" -> "membership_id"
      [] table = "projects" -> "project_id"
      [] table = "sections" -> "section_id"
      [] table = "tasks" -> "task_id"
      [] table = "comments" -> "comment_id"
      [] table = "tags" -> "tag_id"
      [] table = "task_tags" -> "association_id"
      [] table = "custom_field_definitions" -> "field_id"
      [] table = "custom_field_values" -> "value_id"

\* A step keeps every row in its place, adds rows under fresh keys, and
\* changes of the rows it found at most the counts of the task whose
\* subtasks it inserts, from their initial zero.
RowsKept ==
    \A table \in DOMAIN db :
        /\ Len(db'[table]) >= Len(db[table])
        /\ \A i, j \in 1..Len(db'[table]) :
              i /= j => db'[table][i][primary_key(table)]
                            /= db'[table][j][primary_key(table)]
        /\ \A i \in 1..Len(db[table]) :
              LET old == db[table][i]
                  new == db'[table][i]
              IN  new /= old =>
                    /\ table = "tasks"
                    /\ new = [old EXCEPT
                                !.num_subtasks = new.num_subtasks,
                                !.num_completed_subtasks =
                                    new.num_completed_subtasks]
                    /\ old.num_subtasks = 0 /\ new.num_subtasks > 0
                    /\ stage = "task"
                    /\ old.task_id = run.task_ids[run.task]
                    /\ added("tasks") /= <<>>
                    /\ \A t \in rows_of(added("tasks")) :
                          t.parent_task_id = old.task_id

\* C20: within a run no row is deleted, every row is inserted exactly once,
\* and a task row is modified after its insertion at most once, only in
\* num_subtasks and num_completed_subtasks, by the subtask generation for
\* that task.
C20_RowsKept == [][RowsKept]_vars

\* A run has ended with a task whose counts were updated among tasks whose
\* counts were not.
C20_Witness ==
    /\ stage = "done"
    /\ \E t, u \in top_level_tasks :
          t.num_subtasks > 0 /\ u.num_subtasks = 0

\* C21: generate_created_at terminates for every window with start_date <=
\* end_date, in the weekday branch and in the weekend branch: a call that
\* cannot find the preferred kind of day stops re-drawing and returns.
C21_CreatedAtTerminates ==
    (ca.pc = "line38" /\ ca.start_date <= ca.end_date) ~> (ca.pc = "return")

\* C22: in the weekday branch of generate_created_at (prefer_weekdays, first
\* draw below 0.85) the day the loop of lines 46-51 settles on is a Monday
\* to Friday day between the day of start_date and the day of end_date,
\* also after the fresh draw of line 49.
WeekdayInWindow ==
    (ca.pc = "line46" /\ ca'.pc = "line66") =>
        /\ weekday(ca'.candidate_date) <= 4
        /\ date(ca.start_date) <= date(ca'.candidate_date)
        /\ date(ca'.candidate_date) <= date(ca.end_date)

C22_WeekdayInWindow == [][WeekdayInWindow]_vars

\* The horizons of the claimed branches, for r in hundredths.
claimed_horizon(r) ==
    IF r < 15 THEN 0..1
    ELSE IF r < 40 THEN 1..7
    ELSE IF r < 80 THEN 8..30
    ELSE 31..90

\* The day itself, or the Monday after it when it is a Saturday or Sunday.
day_or_following_monday(day) ==
    IF day % 7 > 4 THEN {day, day + (7 - (day % 7))} ELSE {day}

\* C23: generate_due_date returns no date exactly when r < 0.10; otherwise
\* the date is the creation day plus 0..1 days (0.10 <= r < 0.15), 1..7
\* days (r < 0.40), 8..30 days (r < 0.80) or 31..90 days (r >= 0.80), left
\* as it is or, when it is a Saturday or Sunday, moved to the next Monday.
C23_DueDateBranches ==
    dd.pc = "return" =>
        /\ (dd.rand < 10) <=> (dd.result = Null)
        /\ dd.rand >= 10 =>
              \E h \in claimed_horizon(dd.rand) :
                  dd.result \in
                      day_or_following_monday(date(dd.created_at) + h)
        /\ (dd.rand >= 10 /\ ~dd.avoid_weekend) =>
              dd.result - date(dd.created_at) \in claimed_horizon(dd.rand)

\* C23's case: r = 0.15, the first value of the one-week branch, with a
\* horizon that lands on a Saturday and is moved to the Monday.
C23_Witness ==
    /\ dd.pc = "return"
    /\ dd.rand = 15
    /\ dd.avoid_weekend
    /\ (date(dd.created_at) + dd.days) % 7 = 5
    /\ dd.result = date(dd.created_at) + dd.days + 2

\* The rows a step adds to the tables that hold what is generated for the
\* tasks of a project.
NothingGeneratedForProject ==
    /\ added("custom_field_definitions") = <<>>
    /\ added("tasks") = <<>>
    /\ added("comments") = <<>>
    /\ added("custom_field_values") = <<>>
    /\ \A i \in 1..Len(db.tasks) :
          db'.tasks[i].num_subtasks = db.tasks[i].num_subtasks

\* C24: when generate_tasks raises for a project, the pass of the loop of
\* main.py 215 generates no custom-field definition, subtask, comment or
\* custom-field value, hands none of the project's tasks to the tag
\* assignment, and the loop goes on with the next project (the tags when it
\* was the last).
TaskFailureSkipsProject ==
    (stage = "tasks" /\ generate_tasks_outcome.status = "ValueError") =>
        /\ NothingGeneratedForProject
        /\ run'.all_task_ids = run.all_task_ids
        /\ run'.project = run.project + 1
        /\ stage' = IF run.project < Len(self.project_info)
                    THEN "tasks" ELSE "tags"

C24_TaskFailureSkipsProject == [][TaskFailureSkipsProject]_vars

\* C24's case: generate_tasks raised for the first project, which has no
\* task and no field, and the tasks of the second project are in progress.
C24_Witness ==
    /\ stage = "task"
    /\ run.project = 2
    /\ \A t \in rows_of(db.tasks) :
          t.project_id /= self.project_info[1].project_id
    /\ \A f \in rows_of(db.custom_field_definitions) :
          f.project_id /= self.project_info[1].project_id
    /\ \E t \in rows_of(db.tasks) :
          t.project_id = self.project_info[2].project_id

\* The due dates generate_due_date can return for created_at.
fresh_due_dates(created_at) ==
    {date_text(generate_due_date(created_at, d)) :
        d \in due_date_draws(DrawValues, 0..90)}

\* C25: generate_subtasks does not fail because of the parent's due date:
\* when all its generate_created_at calls return it inserts every subtask;
\* when the parent's due_date is empty or does not parse, each subtask's due
\* date is a result of generate_due_date on the subtask's own created_at,
\* and when it parses the subtask's due date is the parent's minus 0 to 7
\* days.
SubtaskDueDates ==
    (stage = "task" /\ generate_subtasks_outcome.status = "return") =>
        LET parent == select(db.tasks, "task_id", run.task_ids[run.task])
            subtasks == added("tasks")
        IN  /\ Len(subtasks) = drawn_num_subtasks
            /\ \A i \in 1..Len(subtasks) :
                  IF parent.due_date /= NULL /\ parses(parent.due_date)
                  THEN \E days_before \in 0..7 :
                          subtasks[i].due_date =
                              date_isoformat(
                                  date(fromisoformat(parent.due_date))
                                      - days_before)
                  ELSE subtasks[i].due_date
                          \in fresh_due_dates(at(subtasks[i].created_at))

C25_SubtaskDueDates == [][SubtaskDueDates]_vars

\* C25's case: the due_date text of the parent does not parse and a subtask
\* with a due date of its own was inserted.
C25_Witness ==
    \E parent \in top_level_tasks, subtask \in subtask_rows :
        /\ parent.due_date /= NULL
        /\ ~parses(parent.due_date)
        /\ subtask.parent_task_id = parent.task_id
        /\ subtask.due_date /= NULL

\* C26: every completed subtask of a completed parent task has its
\* completed_at at or before the completed_at of the parent.
C26_SubtaskCompletedBeforeParent ==
    \A parent \in top_level_tasks, subtask \in subtask_rows :
        (/\ subtask.parent_task_id = parent.task_id
         /\ parent.completed = 1 /\ parent.completed_at /= NULL
         /\ subtask.completed = 1 /\ subtask.completed_at /= NULL)
            => at(subtask.completed_at) <= at(parent.completed_at)

\* C27: every persisted task and subtask has completed = 1 exactly when its
\* completed_at is not null.
C27_CompletedFlagMatchesInstant ==
    \A t \in rows_of(db.tasks) :
        (t.completed = 1) <=> (t.completed_at /= NULL)

\* C28: every call of generate_created_at made during a run receives a
\* window with start_date <= end_date, so that none raises on an empty
\* range; stated for the calls of TaskGenerator.generate_tasks (created_at
\* and modified_at of a task) and of generate_subtasks (created_at,
\* completed_at and modified_at of a subtask), up to the first call that does
\* not return.
C28_WindowsNotEmpty ==
    /\ stage = "tasks" =>
          generate_tasks_outcome.start_date <= generate_tasks_outcome.end_date
    /\ stage = "task" =>
          generate_subtasks_outcome.start_date
              <= generate_subtasks_outcome.end_date

\* The persisted subtasks of a task.
subtasks_of(task_id) == {s \in subtask_rows : s.parent_task_id = task_id}

\* C29: each top-level task's num_subtasks is the number of persisted rows
\* whose parent_task_id is that task, its num_completed_subtasks the number
\* of those with completed = 1, and the second is at most the first; every
\* subtask row has the project_id and section_id of its parent and
\* num_subtasks = 0.  It holds at the end of a run because it holds after
\* every step.
C29_SubtaskCounts ==
    /\ \A t \in top_level_tasks :
          /\ t.num_subtasks = Cardinality(subtasks_of(t.task_id))
          /\ t.num_completed_subtasks =
                Cardinality({s \in subtasks_of(t.task_id) : s.completed = 1})
          /\ t.num_completed_subtasks <= t.num_subtasks
    /\ \A s \in subtask_rows :
          /\ s.num_subtasks = 0
          /\ \E t \in top_level_tasks :
                /\ t.task_id = s.parent_task_id
                /\ t.project_id = s.project_id
                /\ t.section_id = s.section_id

\* C29's case: generate_tasks is over, and a task has subtasks of which
\* some are not completed, next to a task without subtasks.
C29_Witness ==
    /\ stage = "tags"
    /\ \E t \in top_level_tasks :
          t.num_subtasks > 0 /\ t.num_completed_subtasks < t.num_subtasks
    /\ \E t \in top_level_tasks : t.num_subtasks = 0

\* generate_subtasks raises: one of its generate_created_at calls raises
\* after all the calls before it returned.
generate_subtasks_raises ==
    LET calls == flatten([i \in 1..drawn_num_subtasks |->
                            generated_subtask(i).calls])
    IN  \E k \in 1..Len(calls) :
            /\ calls[k].status = "ValueError"
            /\ \A j \in 1..(k - 1) : calls[j].status = "return"

\* C30: when generate_subtasks raises for a parent task, the pass of the
\* loop of main.py 264 persists no subtask row and leaves the parent's
\* num_subtasks and num_completed_subtasks at 0, goes on to the comments
\* and the custom-field values of the task and ends with the loop at the
\* next task (the next project or the tags after the last task).
SubtaskFailureIsolated ==
    (stage = "task" /\ generate_subtasks_raises) =>
        /\ added("tasks") = <<>>
        /\ \A i \in 1..Len(db.tasks) : db'.tasks[i] = db.tasks[i]
        /\ select(db'.tasks, "task_id", run.task_ids[run.task]).num_subtasks
                = 0
        /\ stage' \in {"task", "tasks", "tags"}
        /\ IF run.task < Len(run.task_ids)
           THEN run'.task = run.task + 1 /\ run'.project = run.project
           ELSE run'.project = run.project + 1

====
